---- MODULE Spec2Model ----
(***************************************************************************)
(* Durable worker queue of app/workers/worker_service.py: the Task Store   *)
(* rows, the Ready List, Processing List and Retry Set of the transport,   *)
(* and the dispatcher loop (run_forever / run_once) that recovers leases,  *)
(* promotes retries, dequeues and processes tasks.                         *)
(*                                                                         *)
(* Every store commit and every transport write is one step, so a process  *)
(* crash can fall between any two of them.  A handler of the service first *)
(* reads, then produces the sequence of writes it is going to perform      *)
(* (ops); ExecWrite performs them one at a time.                           *)
(*                                                                         *)
(* Time is kept relative to the clock: a timestamp that the code compares  *)
(* with now (started_at, created_at, a Retry Set score) is stored as its   *)
(* distance to now in seconds, and Tick moves the clock.                   *)
(***************************************************************************)
EXTENDS Integers, Sequences, FiniteSets, TLC

\* ---------------------------------------------------------------- bounds
MaxTasks == 2
MaxRetries == 2
MaxCrashes == 2
MaxLoopAlerts == 2
MaxEnqueueCalls == 1
MaxDispatchers == 2
MaxAttempts == 12
MaxClock == 3
MaxPasses == 1
MaxCalls == 3
MaxPushes == 12
MaxOutages == 1
MaxTimeouts == 1
MaxRetryEntries == 101
MaxPoppers == 2
MaxPolledPushes == 3
TickSeconds == 200

\* ------------------------------------------------------------- constants
WORKER_MAX_RETRIES == 3
WORKER_DEDUPE_WINDOW_SECONDS == 300
WORKER_RETRY_BASE_DELAY_SECONDS == 10
WORKER_RETRY_MAX_DELAY_SECONDS == 300
WORKER_RUNNING_LEASE_SECONDS == 180
WORKER_PROCESSING_RECOVERY_BATCH == 200
WORKER_RESULT_QUEUE_MAX_ITEMS == 200
misfire_grace_time == 1
zrangebyscore_num == 100
NoTime == -1

TaskIds == 1..MaxTasks

Max(a, b) == IF a >= b THEN a ELSE b
Min(a, b) == IF a <= b THEN a ELSE b

\* An enumeration that declares retry_scheduled as well.
WorkerJobStatusWithRetry == {"queued", "running", "success", "failed", "retry_scheduled"}

\* app/workers/models.py: the members of the status enumeration.
WorkerJobStatus == {"queued", "running", "success", "failed"}

\* app/workers/models.py: the job types; each has a handler registered.
WorkerJobType == {"web_search", "web_fetch", "pdf_create"}

\* WorkerService.__init__: the handler registry.
handlers == WorkerJobType

\* Evaluating WorkerJobStatus.RETRY_SCHEDULED succeeds only when the
\* enumeration declares that member; otherwise Python raises AttributeError.
RETRY_SCHEDULED_defined == "retry_scheduled" \in WorkerJobStatus

VARIABLES
  store,          \* Task Store: task id -> row
  ready,          \* Ready List (head = left end, where lpush inserts)
  processing,     \* Processing List
  retry,          \* Retry Set: sequence of [id, due] in score order
  pc,             \* per dispatcher instance: its position inside run_once
  ops,            \* per instance: writes its current handler still has to perform
  cur,            \* per instance: id handed out by its dequeue, 0 if none
  handler_calls,  \* per task: handler invocations
  handler_fails,  \* per task: handler invocations that raised
  alerts,         \* per task: "worker task failed permanently" alerts
  loop_alerts,    \* "worker loop crashed" alerts emitted by run_forever
  notifications,  \* per task: envelopes pushed to the Notification Sink
  enq,            \* per caller: the state of its enqueue call
  users,          \* rows of the users table
  delay,          \* input and output of _retry_delay_seconds
  crashes,        \* process crashes so far
  cron_jobs,      \* cron_jobs table: row id -> committed CronJob row
  scheduler,      \* AsyncIOScheduler: running flag and job store
  sync,           \* the reconciliation pass in progress, and the last outcome
  request,        \* the cron API request in progress
  invoked,        \* the last direct call of a scheduler method and its outcome
  clock,          \* current time
  executions,     \* execute_action invocations, in order
  scheduler_alerts, \* alerts emitted with component="scheduler"
  result_queue,   \* per owner: broker list and in-memory fallback of the sink
  broker,         \* availability of the result broker
  settings,       \* the settings the Notification Sink reads
  pop_calls,      \* per caller: the state of its pop_many call
  popped          \* the envelopes returned by pop_many calls, in order

\* the state of the Cron Scheduler and of the Notification Sink
cron_vars == <<cron_jobs, scheduler, sync, request, invoked, clock, executions,
               scheduler_alerts, result_queue, broker, settings,
                 pop_calls, popped>>

vars == <<store, ready, processing, retry, pc, ops, cur, handler_calls,
          handler_fails, alerts, loop_alerts, notifications, enq, users,
          delay, crashes, cron_vars>>

\* ------------------------------------------------------ transport helpers
\* An insertion at the head that stores the value twice.
LpushTwice(list, id) == <<id, id>> \o list

\* redis LPUSH key value
Lpush(list, id) == <<id>> \o list

\* redis LREM key 0 value: removes every occurrence
Lrem(list, id) == SelectSeq(list, LAMBDA x : x # id)

SeqToSet(s) == {s[i] : i \in 1..Len(s)}

RetryIds == {retry[i].id : i \in 1..Len(retry)}

\* redis ZREM
Zrem(zset, id) == SelectSeq(zset, LAMBDA e : e.id # id)

\* redis ZADD: the member takes the place its score gives it; members with
\* the same score are ordered by member.
Zadd(zset, id, due) ==
  LET rest == Zrem(zset, id)
      before == SelectSeq(rest, LAMBDA e : e.due < due \/ (e.due = due /\ e.id < id))
      after == SelectSeq(rest, LAMBDA e : ~(e.due < due \/ (e.due = due /\ e.id < id)))
  IN before \o <<[id |-> id, due |-> due]>> \o after

\* ------------------------------------------------------------ retry delay
\* A backoff that is exponential but has lost its cap.
retry_delay_uncapped(base_setting, max_setting, attempt_count) ==
  Max(1, base_setting) * (2 ^ Max(0, attempt_count - 1))

\* _retry_delay_seconds, for the values the two settings have
retry_delay(base_setting, max_setting, attempt_count) ==
  LET base == Max(1, base_setting)
      max_delay == Max(base, max_setting)
      value == base * (2 ^ Max(0, attempt_count - 1))
  IN Min(max_delay, value)

retry_delay_seconds(attempt_count) ==
  retry_delay(WORKER_RETRY_BASE_DELAY_SECONDS, WORKER_RETRY_MAX_DELAY_SECONDS,
              attempt_count)

lease_seconds == Max(10, WORKER_RUNNING_LEASE_SECONDS)

\* ------------------------------------------------------------------- rows
\* The row enqueue persists (worker_service.py lines 74-82).
NewRow(user_id, job_type, retries, dedupe) ==
  [status |-> "queued", attempt_count |-> 0, max_retries |-> retries,
   job_type |-> job_type, user_id |-> user_id, dedupe_key |-> dedupe,
   result |-> "None", error |-> "None",
   started_at |-> NoTime, next_retry_at |-> "None", completed_at |-> "None",
   created_at |-> 0]

\* ------------------------------------------------------------- the writes
OpCommit(id, row) == [op |-> "commit", id |-> id, row |-> row]
OpLpushReady(id) == [op |-> "lpush_ready", id |-> id]
OpLremProcessing(id) == [op |-> "lrem_processing", id |-> id]
OpZadd(id, due) == [op |-> "zadd", id |-> id, due |-> due]
OpAlert(id) == [op |-> "alert", id |-> id]
OpNotify(id, kind) == [op |-> "notify", id |-> id, kind |-> kind]
OpPromoteCommit(ids) == [op |-> "promote_commit", ids |-> ids]
OpPromotePipe(ids) == [op |-> "promote_pipe", ids |-> ids]
OpRaise == [op |-> "raise"]

Raises(plan) == \E i \in 1..Len(plan) : plan[i].op = "raise"

\* A notification that is pushed to the result queue and, as a second
\* envelope, to the live connection.
notify_user_twice(id, row, kind) ==
  IF row.user_id = "" THEN <<>> ELSE <<OpNotify(id, kind), OpNotify(id, kind)>>

\* _notify_user: an envelope is pushed only for a task that has an owner.
notify_user(id, row, kind) ==
  IF row.user_id = "" THEN <<>> ELSE <<OpNotify(id, kind)>>

\* A failure path that puts a task with retries left straight back on the
\* Ready List as queued, without the retry_scheduled stage.
fail_task_requeue(id, row, error) ==
  LET n == row.attempt_count + 1
  IN IF n <= row.max_retries
     THEN <<OpCommit(id, [row EXCEPT !.attempt_count = n, !.error = error,
                                     !.status = "queued"]),
            OpLpushReady(id)>>
     ELSE LET failed == [row EXCEPT !.attempt_count = n, !.error = error,
                                    !.status = "failed", !.completed_at = "set"]
          IN <<OpCommit(id, failed), OpAlert(id)>> \o notify_user(id, failed, "failed")

\* _fail_task: the writes of the failure path for the row as it is in the
\* session.  The attribute RETRY_SCHEDULED is evaluated before the commit of
\* the retry branch, so when it raises nothing of this attempt is persisted.
fail_task(id, row, error) ==
  LET n == row.attempt_count + 1
      run_in == retry_delay_seconds(n)
  IN IF n <= row.max_retries
     THEN IF RETRY_SCHEDULED_defined
          THEN <<OpCommit(id, [row EXCEPT !.attempt_count = n, !.error = error,
                                          !.status = "retry_scheduled",
                                          !.next_retry_at = "set"]),
                 OpZadd(id, run_in)>>
          ELSE <<OpRaise>>
     ELSE LET failed == [row EXCEPT !.attempt_count = n, !.error = error,
                                    !.status = "failed", !.completed_at = "set"]
          IN <<OpCommit(id, failed), OpAlert(id)>> \o notify_user(id, failed, "failed")

\* The row the failure path leaves in the session (task_map is shared by the
\* items of one recovery pass).
fail_task_row(row, error) ==
  LET n == row.attempt_count + 1
  IN IF n <= row.max_retries
     THEN [row EXCEPT !.attempt_count = n, !.error = error,
                      !.status = "retry_scheduled", !.next_retry_at = "set"]
     ELSE [row EXCEPT !.attempt_count = n, !.error = error,
                      !.status = "failed", !.completed_at = "set"]

\* ------------------------------------------------- applying one write
State == [store |-> store, ready |-> ready, processing |-> processing,
          retry |-> retry, alerts |-> alerts, notifications |-> notifications]

\* A pipeline that pushes the ids and leaves them in the Retry Set.
PromotePipeKeep(ids, s) ==
  [s EXCEPT !.ready = [i \in 1..Len(ids) |-> ids[Len(ids) + 1 - i]] \o s.ready]

\* pipe.zrem + pipe.lpush for every id in turn, executed as one MULTI/EXEC:
\* the ids leave the Retry Set and the id pushed last is the new head of the
\* Ready List
PromotePipe(ids, s) ==
  [s EXCEPT !.retry = SelectSeq(s.retry, LAMBDA e : e.id \notin SeqToSet(ids)),
            !.ready = [i \in 1..Len(ids) |-> ids[Len(ids) + 1 - i]] \o s.ready]

Apply(op, s) ==
  CASE op.op = "commit" ->
         [s EXCEPT !.store = [s.store EXCEPT ![op.id] = op.row]]
    [] op.op = "lpush_ready" ->
         [s EXCEPT !.ready = Lpush(s.ready, op.id)]
    [] op.op = "lrem_processing" ->
         [s EXCEPT !.processing = Lrem(s.processing, op.id)]
    [] op.op = "zadd" ->
         [s EXCEPT !.retry = Zadd(s.retry, op.id, op.due)]
    [] op.op = "alert" ->
         [s EXCEPT !.alerts = [s.alerts EXCEPT ![op.id] = @ + 1]]
    [] op.op = "notify" ->
         [s EXCEPT !.notifications =
                     [s.notifications EXCEPT ![op.id] = Append(@, op.kind)]]
    [] op.op = "promote_commit" ->
         [s EXCEPT !.store =
            [t \in DOMAIN s.store |->
               IF t \in SeqToSet(op.ids)
               THEN [s.store[t] EXCEPT !.status = "queued", !.next_retry_at = "None"]
               ELSE s.store[t]]]
    [] op.op = "promote_pipe" -> PromotePipe(op.ids, s)
    [] OTHER -> s

RECURSIVE ApplyAll(_, _)
\* the writes of a plan up to the point where it raises
ApplyAll(plan, s) ==
  IF plan = <<>> \/ Head(plan).op = "raise" THEN s
  ELSE ApplyAll(Tail(plan), Apply(Head(plan), s))

\* ---------------------------------------------------- recovery, pass 1
\* A recovery item that re-queues a queued row and forgets to drop the id
\* from the Processing List.
recover_processing_item_keep(id, rows) ==
  IF id \in DOMAIN rows /\ rows[id].status = "queued"
  THEN [plan |-> <<OpLpushReady(id)>>, rows |-> rows]
  ELSE IF id \notin DOMAIN rows
  THEN [plan |-> <<OpLremProcessing(id)>>, rows |-> rows]
  ELSE [plan |-> <<OpRaise>>, rows |-> rows]

\* _recover_processing_item: the writes for one id of the Processing List
\* and the row it leaves in the session.  The set terminal_statuses is built
\* for every id that has a row, and building it evaluates RETRY_SCHEDULED.
recover_processing_item(id, rows) ==
  IF id \notin DOMAIN rows
  THEN [plan |-> <<OpLremProcessing(id)>>, rows |-> rows]
  ELSE IF ~RETRY_SCHEDULED_defined
  THEN [plan |-> <<OpRaise>>, rows |-> rows]
  ELSE IF rows[id].status \in {"success", "failed", "retry_scheduled"}
  THEN [plan |-> <<OpLremProcessing(id)>>, rows |-> rows]
  ELSE IF rows[id].status = "queued"
  THEN [plan |-> <<OpLpushReady(id), OpLremProcessing(id)>>, rows |-> rows]
  ELSE IF /\ rows[id].status = "running"
          /\ rows[id].started_at # NoTime
          /\ rows[id].started_at > lease_seconds
  THEN [plan |-> fail_task(id, rows[id], "lease_timeout") \o <<OpLremProcessing(id)>>,
        rows |-> [rows EXCEPT ![id] = fail_task_row(rows[id], "lease_timeout")]]
  ELSE [plan |-> <<>>, rows |-> rows]

RECURSIVE recover_items(_, _)
recover_items(task_ids, rows) ==
  IF task_ids = <<>> THEN <<>>
  ELSE LET item == recover_processing_item(Head(task_ids), rows)
       IN IF Raises(item.plan) THEN item.plan
          ELSE item.plan \o recover_items(Tail(task_ids), item.rows)

\* _recover_processing_queue: lrange of the first max_batch ids, one select
\* of their rows, then one item after the other.
recover_processing_queue(s) ==
  LET max_batch == Max(10, WORKER_PROCESSING_RECOVERY_BATCH)
      task_ids == SubSeq(s.processing, 1, Min(Len(s.processing), max_batch))
  IN recover_items(task_ids, s.store)

\* ---------------------------------------------------- recovery, pass 2
RECURSIVE fail_rows(_, _)
fail_rows(ids, rows) ==
  IF ids = <<>> THEN <<>>
  ELSE LET plan == fail_task(Head(ids), rows[Head(ids)], "lease_timeout")
       IN IF Raises(plan) THEN plan ELSE plan \o fail_rows(Tail(ids), rows)

\* A sweep whose query lost its status filter.
StaleAnyStatus(rows) ==
  {t \in DOMAIN rows : rows[t].started_at # NoTime /\ rows[t].started_at > lease_seconds}

\* _recover_stale_running_tasks, lines 347-353: the rows the sweep selects
StaleRunning(rows) ==
  {t \in DOMAIN rows : /\ rows[t].status = "running"
                       /\ rows[t].started_at # NoTime
                       /\ rows[t].started_at > lease_seconds}

\* the orders in which a select without ORDER BY can return a set of rows
Orders(S) == {q \in [1..Cardinality(S) -> S] : \A i, j \in 1..Cardinality(S) : i # j => q[i] # q[j]}

\* ------------------------------------------------------------ promotion
\* A range query that also returns the entries due within the next delay.
DueIdsEarly(zset) ==
  LET due == SelectSeq(zset, LAMBDA e : e.due <= retry_delay_seconds(1))
      ids == [i \in 1..Len(due) |-> due[i].id]
  IN SubSeq(ids, 1, Min(Len(ids), zrangebyscore_num))

\* _promote_retries, line 252: zrangebyscore(min=0, max=now, start=0, num=100),
\* the ids of the first num entries whose score is not after now
DueIds(zset) ==
  LET due == SelectSeq(zset, LAMBDA e : e.due <= 0)
      ids == [i \in 1..Len(due) |-> due[i].id]
  IN SubSeq(ids, 1, Min(Len(ids), zrangebyscore_num))

\* ------------------------------------------------------------------ Init
RECURSIVE Descending(_)
Descending(n) == IF n = 0 THEN <<>> ELSE <<n>> \o Descending(n - 1)

\* A payload: the owner (key __user_id), the public key url and one more
\* private key (__requested_job_type).
Payloads == [user_id : {"u1"}, url : TaskIds, private : {0, 1}]

\* _build_dedupe_key: the hash of job type, owner and the payload without
\* the keys that start with "__" (the hash is taken to be injective).
build_dedupe_key(job_type, payload) == <<job_type, payload.user_id, payload.url>>

\* an enqueue call that has not started
NewCall == [pc |-> "start", key |-> <<>>, args |-> "none", result |-> "none",
            task |-> 0, found |-> 0, seen |-> <<>>]

\* ------------------------------------------- Cron Scheduler: its state
\* Strings whose prefix or fields the code inspects are sequences of tokens:
\* a job id is <<"global_", name>> or <<uuid>>, a cron expression is the
\* sequence of its fields or <<"@once:", timestamp>>.
startswith(string, prefix) == string # <<>> /\ Head(string) = prefix

\* str(row.id) of the rows the table can hold
RowIds == {<<"uuid1">>, <<"uuid2">>}

\* ids of the jobs that start() registers
global_proactive_ping == <<"global_", "proactive_ping">>
global_cron_sync == <<"global_", "cron_sync">>

Owners == {"u1", "u2"}

\* no cron row, a stopped scheduler with an empty job store, no pass, no
\* request and no call in progress, an empty result queue for every owner
NoSync == [pc |-> "idle", force |-> FALSE, rows |-> <<>>, passes |-> 0,
           last |-> [kind |-> "none", loaded |-> 0, failed |-> 0, removed |-> 0]]
NoRequest == [pc |-> "none", id |-> <<>>, used |-> {}]
\* a pop_many call that has not started
NoPop == [pc |-> "idle", count |-> 0, raw_items |-> <<>>]

NoCall == [op |-> "none", args |-> <<>>, raised |-> FALSE, pushes |-> 0, count |-> 0,
           repeats |-> FALSE]

CronIdle ==
  /\ cron_jobs = <<>>
  /\ scheduler = [running |-> FALSE, serving |-> FALSE, jobs |-> <<>>]
  /\ sync = NoSync
  /\ request = NoRequest
  /\ invoked = NoCall
  /\ clock = 0
  /\ executions = <<>>
  /\ scheduler_alerts = <<>>
  /\ result_queue = [u \in Owners |-> [redis |-> <<>>, local |-> <<>>]]
  /\ broker = [up |-> TRUE, outages |-> 0, timeouts |-> 0]
  /\ settings = [WORKER_RESULT_QUEUE_MAX_ITEMS |-> WORKER_RESULT_QUEUE_MAX_ITEMS]
  /\ pop_calls = [c \in 1..MaxPoppers |-> NoPop]
  /\ popped = <<>>

\* The state in which nd dispatcher processes start over a durable store and
\* transport, with nc callers about to call enqueue.  The rows present are
\* rows as enqueue writes them (status queued, attempt_count 0), their ids
\* pushed on the Ready List in the order of their creation.
Start(nd, nc, job_types) ==
  /\ \E n \in 0..MaxTasks :
       \E mr \in [1..n -> 0..MaxRetries], jt \in [1..n -> job_types] :
         /\ store = [t \in 1..n |->
                       NewRow("u1", jt[t], mr[t],
                              build_dedupe_key(jt[t], [user_id |-> "u1", url |-> t,
                                                       private |-> 0]))]
         /\ ready = Descending(n)
  /\ processing = <<>>
  /\ retry = <<>>
  /\ pc = [d \in 1..nd |-> "idle"]
  /\ ops = [d \in 1..nd |-> <<>>]
  /\ cur = [d \in 1..nd |-> 0]
  /\ handler_calls = [t \in TaskIds |-> 0]
  /\ handler_fails = [t \in TaskIds |-> 0]
  /\ alerts = [t \in TaskIds |-> 0]
  /\ loop_alerts = 0
  /\ notifications = [t \in TaskIds |-> <<>>]
  /\ enq = [c \in 1..nc |-> NewCall]
  /\ users = {"u1"}
  /\ delay = [base |-> WORKER_RETRY_BASE_DELAY_SECONDS,
              max |-> WORKER_RETRY_MAX_DELAY_SECONDS, n |-> 0, out |-> 0, prev |-> 0]
  /\ crashes = 0
  /\ CronIdle

\* one dispatcher, tasks of a registered job type
Init == Start(1, MaxEnqueueCalls, {"web_fetch"})

\* one dispatcher and one more caller of enqueue, so that two calls can overlap
InitRace == Start(1, MaxEnqueueCalls + 1, {"web_fetch"})

\* several dispatcher processes over the same store and transport
InitMulti == Start(MaxDispatchers, MaxEnqueueCalls, {"web_fetch"})

\* the store also holds rows whose job_type is no member of WorkerJobType
\* (written by another version of the program), so no handler is registered
InitUnregistered == Start(1, MaxEnqueueCalls, {"web_fetch", "legacy_job"})

\* --------------------------------------------------------------- enqueue
\* _find_deduplicated_task: the newest non-terminal row with the key that
\* was created inside the dedup window (0 if none).
find_deduplicated_task(rows, dedupe) ==
  LET found == {t \in DOMAIN rows :
                  /\ rows[t].dedupe_key = dedupe
                  /\ rows[t].status \in {"queued", "running", "retry_scheduled"}
                  /\ rows[t].created_at <= WORKER_DEDUPE_WINDOW_SECONDS}
  IN IF found = {} THEN 0
     ELSE CHOOSE t \in found :
            \A u \in found : rows[t].created_at < rows[u].created_at
                             \/ (rows[t].created_at = rows[u].created_at /\ t >= u)

Returned(call, result, task) ==
  [call EXCEPT !.pc = "done", !.result = result, !.task = task]

\* enqueue(job_type, payload, max_retries, dedupe_key), one await at a time:
\* the dedup lookup (lines 59-71), the commit of the new row (73-85) and the
\* lpush of its id (87-88).  max_retries = NoTime and dedupe_key = "None"
\* stand for None.  The status list of the lookup names RETRY_SCHEDULED, so
\* the lookup raises when the enumeration has no such member.  The fields
\* found and seen of the call record what the store held and where the other
\* calls were when the lookup ran.
enqueue(c, job_type, payload, max_retries, dedupe_key) ==
  LET call == enq[c]
      retries == Max(0, IF max_retries = NoTime THEN WORKER_MAX_RETRIES ELSE max_retries)
      dedupe == IF dedupe_key # "None" THEN dedupe_key
                ELSE build_dedupe_key(job_type, payload)
      looked == [call EXCEPT !.key = dedupe,
                             !.found = find_deduplicated_task(store, dedupe),
                             !.seen = [o \in DOMAIN enq \ {c} |-> enq[o].pc]]
      free == TaskIds \ DOMAIN store
      id == CHOOSE t \in free : \A u \in free : t <= u
  IN /\ call.pc # "done"
     /\ IF call.pc = "start"
        THEN /\ UNCHANGED <<store, ready>>
             /\ enq' = [enq EXCEPT ![c] =
                  IF ~RETRY_SCHEDULED_defined
                  THEN Returned(looked, "AttributeError", 0)
                  ELSE IF looked.found # 0
                  THEN Returned(looked, "deduplicated", looked.found)
                  ELSE [looked EXCEPT !.pc = "insert",
                                      !.args = [job_type |-> job_type,
                                                user_id |-> payload.user_id,
                                                retries |-> retries]]]
        ELSE IF call.pc = "insert"
        THEN IF call.args.user_id \notin users
             THEN /\ enq' = [enq EXCEPT ![c] = Returned(call, "IntegrityError", 0)]
                  /\ UNCHANGED <<store, ready>>
             ELSE /\ free # {}
                  /\ store' = [t \in DOMAIN store \cup {id} |->
                                 IF t = id
                                 THEN NewRow(call.args.user_id, call.args.job_type,
                                             call.args.retries, call.key)
                                 ELSE store[t]]
                  /\ enq' = [enq EXCEPT ![c] = [call EXCEPT !.pc = "push", !.task = id]]
                  /\ UNCHANGED ready
        ELSE /\ ready' = Lpush(ready, call.task)
             /\ enq' = [enq EXCEPT ![c] = Returned(call, "enqueued", call.task)]
             /\ UNCHANGED store
     /\ UNCHANGED <<processing, retry, pc, ops, cur, handler_calls, handler_fails,
                    alerts, loop_alerts, notifications, users, delay, crashes,
                    cron_vars>>

Enqueue ==
  \E c \in DOMAIN enq, p \in Payloads, m \in {NoTime} \cup (0..MaxRetries) :
    enqueue(c, "web_fetch", p, m, "None")

\* ------------------------------------------------------------- run_once
\* Every process that runs run_forever (the API process of main.py, the
\* worker process of workers/run.py) is one dispatcher instance; DOMAIN pc is
\* the set of instances, which share the store and the transport.
Quiet == UNCHANGED <<handler_calls, handler_fails, enq, crashes, users, delay, cron_vars>>
Durable == <<store, ready, processing, retry, alerts, notifications>>

\* run_once, line 124: the Processing List recovery pass
RecoverProcessingQueue(d) ==
  /\ pc[d] = "idle" /\ ops[d] = <<>>
  /\ ops' = [ops EXCEPT ![d] = recover_processing_queue(State)]
  /\ pc' = [pc EXCEPT ![d] = "recover_stale"]
  /\ UNCHANGED <<Durable, cur, loop_alerts>> /\ Quiet

\* run_once, line 125: the sweep over the store for stale Running rows
RecoverStaleRunningTasks(d) ==
  /\ pc[d] = "recover_stale" /\ ops[d] = <<>>
  /\ \E order \in Orders(StaleRunning(store)) :
       ops' = [ops EXCEPT ![d] = fail_rows(order, store)]
  /\ pc' = [pc EXCEPT ![d] = "promote"]
  /\ UNCHANGED <<Durable, cur, loop_alerts>> /\ Quiet

\* run_once, line 126: _promote_retries
PromoteRetries(d) ==
  /\ pc[d] = "promote" /\ ops[d] = <<>>
  /\ LET ready_ids == DueIds(retry)
     IN ops' = [ops EXCEPT ![d] =
                  IF ready_ids = <<>> THEN <<>>
                  ELSE <<OpPromoteCommit(ready_ids), OpPromotePipe(ready_ids)>>]
  /\ pc' = [pc EXCEPT ![d] = "dequeue"]
  /\ UNCHANGED <<Durable, cur, loop_alerts>> /\ Quiet

\* A dequeue that reads the tail of the Ready List and pushes it on the
\* Processing List without popping it.
rpoplpush_peek(s) ==
  [s EXCEPT !.processing = Lpush(s.processing, s.ready[Len(s.ready)])]

\* redis BRPOPLPUSH on a non-empty source: the tail of the Ready List becomes
\* the head of the Processing List, in one command.
brpoplpush(s) ==
  [s EXCEPT !.ready = SubSeq(s.ready, 1, Len(s.ready) - 1),
            !.processing = Lpush(s.processing, s.ready[Len(s.ready)])]

\* A dequeue that pops the head of the Ready List, the end where lpush
\* inserts.
DequeueHead(d) ==
  /\ pc[d] = "dequeue" /\ ops[d] = <<>>
  /\ IF ready = <<>>
     THEN /\ pc' = [pc EXCEPT ![d] = "idle"]
          /\ UNCHANGED <<ready, processing, cur>>
     ELSE /\ ready' = Tail(ready)
          /\ processing' = Lpush(processing, Head(ready))
          /\ cur' = [cur EXCEPT ![d] = Head(ready)]
          /\ pc' = [pc EXCEPT ![d] = "process"]
  /\ UNCHANGED <<store, retry, alerts, notifications, ops, loop_alerts>> /\ Quiet

\* run_once, lines 128-134: the dequeue; a timeout ends the iteration.
Dequeue(d) ==
  /\ pc[d] = "dequeue" /\ ops[d] = <<>>
  /\ IF ready = <<>>
     THEN /\ pc' = [pc EXCEPT ![d] = "idle"]
          /\ UNCHANGED <<ready, processing, cur>>
     ELSE /\ ready' = brpoplpush(State).ready
          /\ processing' = brpoplpush(State).processing
          /\ cur' = [cur EXCEPT ![d] = ready[Len(ready)]]
          /\ pc' = [pc EXCEPT ![d] = "process"]
  /\ UNCHANGED <<store, retry, alerts, notifications, ops, loop_alerts>> /\ Quiet

\* _process_task, lines 158-167: select the row and mark it Running
ProcessTask(d) ==
  /\ pc[d] = "process" /\ ops[d] = <<>>
  /\ IF cur[d] \notin DOMAIN store
     THEN /\ ops' = [ops EXCEPT ![d] = <<OpLremProcessing(cur[d])>>]
          /\ pc' = [pc EXCEPT ![d] = "idle"]
          /\ cur' = [cur EXCEPT ![d] = 0]
     ELSE /\ ops' = [ops EXCEPT ![d] =
                       <<OpCommit(cur[d], [store[cur[d]] EXCEPT !.status = "running",
                                                                !.started_at = 0,
                                                                !.next_retry_at = "None"])>>]
          /\ pc' = [pc EXCEPT ![d] = "invoke"]
          /\ cur' = cur
  /\ UNCHANGED <<Durable, loop_alerts>> /\ Quiet

\* A failure path without the finally clause: an exception leaves
\* _process_task before the id is removed from the Processing List.
process_fail_no_finally(id, row, error) ==
  LET plan == fail_task(id, row, error)
  IN IF Raises(plan) THEN <<OpRaise>>
     ELSE plan \o <<OpLremProcessing(id)>>

\* the plan of the failure path inside _process_task: the finally clause
\* removes the id from the Processing List whether or not _fail_task raises
process_fail(id, row, error) ==
  LET plan == fail_task(id, row, error)
  IN IF Raises(plan) THEN <<OpLremProcessing(id), OpRaise>>
     ELSE plan \o <<OpLremProcessing(id)>>

\* _process_task, lines 169-186: look the handler up and call it
InvokeHandler(d) ==
  /\ pc[d] = "invoke" /\ ops[d] = <<>>
  /\ IF store[cur[d]].job_type \in handlers
     THEN /\ handler_calls' = [handler_calls EXCEPT ![cur[d]] = @ + 1]
          /\ pc' = [pc EXCEPT ![d] = "handler"]
          /\ UNCHANGED <<ops, cur>>
     ELSE /\ ops' = [ops EXCEPT ![d] = process_fail(cur[d], store[cur[d]], "no_handler")]
          /\ pc' = [pc EXCEPT ![d] = "idle"]
          /\ cur' = [cur EXCEPT ![d] = 0]
          /\ UNCHANGED handler_calls
  /\ UNCHANGED <<Durable, loop_alerts, handler_fails, enq, crashes, users, delay,
                 cron_vars>>

\* A success path that counts the finished attempt.
task_success_counting(row) ==
  [row EXCEPT !.status = "success", !.result = "result", !.error = "None",
              !.completed_at = "set", !.attempt_count = @ + 1]

\* _process_task, lines 187-190: the row of a task whose handler returned
task_success(row) ==
  [row EXCEPT !.status = "success", !.result = "result", !.error = "None",
              !.completed_at = "set"]

\* _process_task, lines 187-192: the handler returned
HandlerReturns(d) ==
  /\ pc[d] = "handler" /\ ops[d] = <<>>
  /\ LET done == task_success(store[cur[d]])
     IN ops' = [ops EXCEPT ![d] =
                  <<OpCommit(cur[d], done)>> \o notify_user(cur[d], done, "success")
                    \o <<OpLremProcessing(cur[d])>>]
  /\ pc' = [pc EXCEPT ![d] = "idle"]
  /\ cur' = [cur EXCEPT ![d] = 0]
  /\ UNCHANGED <<Durable, loop_alerts>> /\ Quiet

\* _process_task, lines 205-206: the handler raised
HandlerRaises(d) ==
  /\ pc[d] = "handler" /\ ops[d] = <<>>
  /\ handler_fails' = [handler_fails EXCEPT ![cur[d]] = @ + 1]
  /\ ops' = [ops EXCEPT ![d] = process_fail(cur[d], store[cur[d]], "handler_error")]
  /\ pc' = [pc EXCEPT ![d] = "idle"]
  /\ cur' = [cur EXCEPT ![d] = 0]
  /\ UNCHANGED <<Durable, loop_alerts, handler_calls, enq, crashes, users, delay,
                 cron_vars>>

\* A loop without the except clause: the exception ends run_forever.
run_forever_uncaught(d) ==
  /\ pc' = [pc EXCEPT ![d] = "dead"]
  /\ UNCHANGED loop_alerts

\* run_forever, lines 143-151: the exception is caught, one critical alert is
\* emitted and, after the sleep, the while loop goes round again.
run_forever_except(d) ==
  /\ pc' = [pc EXCEPT ![d] = "idle"]
  /\ loop_alerts' = Min(MaxLoopAlerts, loop_alerts + 1)

\* One store commit, transport write, alert or envelope of the running plan.
\* A raise leaves run_once and is handled by run_forever.
ExecWrite(d) ==
  /\ ops[d] # <<>>
  /\ IF Head(ops[d]).op = "raise"
     THEN /\ ops' = [ops EXCEPT ![d] = <<>>]
          /\ cur' = [cur EXCEPT ![d] = 0]
          /\ run_forever_except(d)
          /\ UNCHANGED Durable
     ELSE /\ LET s == Apply(Head(ops[d]), State)
             IN /\ store' = s.store
                /\ ready' = s.ready
                /\ processing' = s.processing
                /\ retry' = s.retry
                /\ alerts' = s.alerts
                /\ notifications' = s.notifications
          /\ ops' = [ops EXCEPT ![d] = Tail(@)]
          /\ UNCHANGED <<pc, cur, loop_alerts>>
  /\ Quiet

\* ----------------------------------------------------------------- clock
AgeRow(row) ==
  [row EXCEPT !.started_at = IF @ = NoTime THEN NoTime
                             ELSE Min(lease_seconds + 1, @ + TickSeconds),
              !.created_at = Min(WORKER_DEDUPE_WINDOW_SECONDS + 1, @ + TickSeconds)]

\* datetime.now() moves on by TickSeconds (between two handlers' writes)
Tick ==
  /\ \A d \in DOMAIN ops : ops[d] = <<>>
  /\ store' = [t \in DOMAIN store |-> AgeRow(store[t])]
  /\ retry' = [i \in 1..Len(retry) |-> [retry[i] EXCEPT !.due = Max(0, @ - TickSeconds)]]
  /\ (store' # store \/ retry' # retry)
  /\ UNCHANGED <<ready, processing, pc, ops, cur, alerts, loop_alerts, notifications>>
  /\ Quiet

\* ----------------------------------------------------------------- crash
\* A dispatcher process dies and is started again: the store and the
\* transport keep their contents, the position inside run_once and the
\* pending writes of that process are lost.
Crash(d) ==
  /\ crashes < MaxCrashes
  /\ (pc[d] # "idle" \/ ops[d] # <<>>)
  /\ crashes' = crashes + 1
  /\ pc' = [pc EXCEPT ![d] = "idle"]
  /\ ops' = [ops EXCEPT ![d] = <<>>]
  /\ cur' = [cur EXCEPT ![d] = 0]
  /\ UNCHANGED <<Durable, loop_alerts, handler_calls, handler_fails, enq,
                 users, delay, cron_vars>>

Dispatcher ==
  \/ \E d \in DOMAIN pc : RecoverProcessingQueue(d)
  \/ \E d \in DOMAIN pc : RecoverStaleRunningTasks(d)
  \/ \E d \in DOMAIN pc : PromoteRetries(d)
  \/ \E d \in DOMAIN pc : Dequeue(d)
  \/ \E d \in DOMAIN pc : ProcessTask(d)
  \/ \E d \in DOMAIN pc : InvokeHandler(d)
  \/ \E d \in DOMAIN pc : HandlerReturns(d)
  \/ \E d \in DOMAIN pc : HandlerRaises(d)
  \/ \E d \in DOMAIN pc : ExecWrite(d)

Next == Dispatcher \/ Enqueue \/ Tick

Spec == Init /\ [][Next]_vars

NextCrash == Next \/ (\E d \in DOMAIN pc : Crash(d))

SpecCrash == Init /\ [][NextCrash]_vars

SpecRace == InitRace /\ [][Next]_vars

SpecMulti == InitMulti /\ [][Next]_vars

SpecUnregistered == InitUnregistered /\ [][Next]_vars

\* ------------------------------------------------- a filled Retry Set
\* The dispatcher starts over a transport whose Retry Set holds entries
\* (Redis keeps them across deployments; scripts/smoke_worker_queue.py line
\* 261 writes one by hand).  Entry i has member i; the first m entries are
\* due, the others are due one retry delay from now.  The tasks that still
\* have a row are stored as the retry branch of _fail_task is written to
\* leave them; the rows of the other ids are gone.
InitPromote ==
  /\ \E n \in (0..MaxTasks + 1) \cup {MaxRetryEntries - 1, MaxRetryEntries} :
       \E m \in (0..Min(n, MaxTasks + 1)) \cup {n}, mr \in 1..MaxRetries :
         /\ store = [t \in 1..Min(n, MaxTasks) |->
                       fail_task_row(
                         [NewRow("u1", "web_fetch", mr,
                                 build_dedupe_key("web_fetch",
                                   [user_id |-> "u1", url |-> t, private |-> 0]))
                            EXCEPT !.status = "running", !.started_at = 0],
                         "handler_error")]
         /\ retry = [i \in 1..n |->
                       [id |-> i,
                        due |-> IF i <= m THEN 0 ELSE retry_delay_seconds(1)]]
  /\ ready = <<>>
  /\ processing = <<>>
  /\ pc = <<"idle">> /\ ops = << <<>> >> /\ cur = <<0>>
  /\ handler_calls = [t \in TaskIds |-> 0]
  /\ handler_fails = [t \in TaskIds |-> 0]
  /\ alerts = [t \in TaskIds |-> 0]
  /\ loop_alerts = 0
  /\ notifications = [t \in TaskIds |-> <<>>]
  /\ enq = [c \in 1..MaxEnqueueCalls |-> NewCall]
  /\ users = {"u1"}
  /\ delay = [base |-> WORKER_RETRY_BASE_DELAY_SECONDS,
              max |-> WORKER_RETRY_MAX_DELAY_SECONDS, n |-> 0, out |-> 0, prev |-> 0]
  /\ crashes = 0
  /\ CronIdle

SpecPromote == InitPromote /\ [][Next]_vars

\* ------------------------------------------------------------ user deletion
\* admin_delete_user: db.delete(target_user) and commit.  The foreign key
\* worker_tasks.user_id is declared ondelete="CASCADE", so the database
\* deletes the user's task rows with the user; the ids stay in the transport.
\* The request is taken to arrive while no dispatcher holds a row in its
\* session.
AdminDeleteUser ==
  /\ \A d \in DOMAIN pc : ops[d] = <<>> /\ pc[d] \notin {"invoke", "handler"}
  /\ \E u \in users :
       /\ users' = users \ {u}
       /\ store' = [t \in {x \in DOMAIN store : store[x].user_id # u} |-> store[t]]
  /\ UNCHANGED <<ready, processing, retry, pc, ops, cur, handler_calls,
                 handler_fails, alerts, loop_alerts, notifications, enq, delay,
                 crashes, cron_vars>>

NextDelete == Next \/ AdminDeleteUser

SpecDelete == Init /\ [][NextDelete]_vars

\* ----------------------------------------------------- the delay function
\* values of WORKER_RETRY_BASE_DELAY_SECONDS and WORKER_RETRY_MAX_DELAY_SECONDS
\* that the environment can set, the defaults among them
BaseDelaySettings ==
  {0, 1, WORKER_RETRY_BASE_DELAY_SECONDS, WORKER_RETRY_MAX_DELAY_SECONDS + 1}
MaxDelaySettings ==
  {0, WORKER_RETRY_BASE_DELAY_SECONDS - 1, WORKER_RETRY_MAX_DELAY_SECONDS}

\* no task and no caller; the settings are drawn, no delay computed yet
InitDelay ==
  /\ store = <<>> /\ ready = <<>> /\ processing = <<>> /\ retry = <<>>
  /\ pc = <<"idle">> /\ ops = << <<>> >> /\ cur = <<0>>
  /\ handler_calls = [t \in TaskIds |-> 0]
  /\ handler_fails = [t \in TaskIds |-> 0]
  /\ alerts = [t \in TaskIds |-> 0]
  /\ loop_alerts = 0
  /\ notifications = [t \in TaskIds |-> <<>>]
  /\ enq = <<>>
  /\ users = {"u1"}
  /\ \E b \in BaseDelaySettings, m \in MaxDelaySettings :
       delay = [base |-> b, max |-> m, n |-> 0, out |-> 0, prev |-> 0]
  /\ crashes = 0
  /\ CronIdle

\* _retry_delay_seconds is called for the next attempt_count (as _fail_task
\* does after each failed attempt of one task)
RetryDelaySeconds ==
  /\ delay.n < MaxAttempts
  /\ delay' = [delay EXCEPT !.n = @ + 1,
                            !.prev = delay.out,
                            !.out = retry_delay(delay.base, delay.max, delay.n + 1)]
  /\ UNCHANGED <<store, ready, processing, retry, pc, ops, cur, handler_calls,
                 handler_fails, alerts, loop_alerts, notifications, enq, users, cron_vars,
                 crashes>>

SpecDelay == InitDelay /\ [][RetryDelaySeconds]_vars

\* Fairness: run_forever never stops iterating, a handler call returns or
\* raises, and the clock moves on.
FairSpec == Spec /\ WF_vars(Dispatcher) /\ WF_vars(Tick)

FairSpecCrash == SpecCrash /\ WF_vars(Dispatcher) /\ WF_vars(Tick)

\* ====================================================== Cron Scheduler
\* ---------------------------------------------------------- triggers
\* datetime.fromisoformat: the timestamps "T1", "T2" are the clock values 1
\* and 2; any other text raises ValueError (NoTime).
fromisoformat(text) ==
  CASE text = <<"T1">> -> 1
    [] text = <<"T2">> -> 2
    [] OTHER -> NoTime

NoTrigger == [type |-> "error", run_date |-> NoTime, fields |-> <<>>]

DateTrigger(run_at) == [type |-> "date", run_date |-> run_at, fields |-> <<>>]

\* CronTrigger.from_crontab accepts an expression of exactly five fields
from_crontab(expr) ==
  IF Len(expr) = 5 THEN [type |-> "cron", run_date |-> NoTime, fields |-> expr]
  ELSE NoTrigger

\* the trigger add_or_replace_job builds, NoTrigger when building it raises
build_trigger(cron_expression) ==
  IF startswith(cron_expression, "@once:")
  THEN LET run_at == fromisoformat(Tail(cron_expression))
       IN  IF run_at = NoTime THEN NoTrigger ELSE DateTrigger(run_at)
  ELSE from_crontab(cron_expression)

\* trigger.get_next_fire_time(None, now): a date trigger fires at its
\* run_date, a cron trigger at its next occurrence (one per clock value)
get_next_fire_time(trigger, now) ==
  IF trigger.type = "date" THEN trigger.run_date ELSE now + 1

\* ---------------------------------------------------------- job store
NoKwargs == [user_id |-> "None", action_type |-> <<>>, payload |-> "None"]

Job(id, trigger, kwargs, now) ==
  [id |-> id, trigger |-> trigger, kwargs |-> kwargs,
   next_run_time |-> get_next_fire_time(trigger, now)]

JobIds(jobs) == {jobs[i].id : i \in 1..Len(jobs)}

\* scheduler.get_job(job_id), jobs of that id in store order
get_job(jobs, job_id) == SelectSeq(jobs, LAMBDA j : j.id = job_id)

\* an add_job that ignores replace_existing and stores one more job
add_job_append(jobs, job, replace_existing) == Append(jobs, job)

\* scheduler.add_job on a running scheduler: a job of the same id is
\* replaced in place when replace_existing is set
add_job(jobs, job, replace_existing) ==
  IF job.id \in JobIds(jobs) /\ replace_existing
  THEN [i \in 1..Len(jobs) |-> IF jobs[i].id = job.id THEN job ELSE jobs[i]]
  ELSE Append(jobs, job)

remove_job(jobs, job_id) == SelectSeq(jobs, LAMBDA j : j.id # job_id)

Alert(message, job_id) == [message |-> message, job_id |-> job_id]

\* an add_or_replace_job that drops the job's present trigger before it
\* parses the expression
add_or_replace_job_remove_first(jobs, now, job_id, cron_expression, user_id, action_type, payload) ==
  LET trigger == build_trigger(cron_expression)
      kwargs == [user_id |-> user_id, action_type |-> action_type, payload |-> payload]
  IN  IF trigger.type = "error"
      THEN [jobs |-> remove_job(jobs, job_id), raised |-> TRUE,
            alerts |-> <<Alert("scheduler add job failed", job_id)>>]
      ELSE [jobs |-> add_job(jobs, Job(job_id, trigger, kwargs, now), TRUE),
            raised |-> FALSE, alerts |-> <<>>]

\* add_or_replace_job: the job store after the call, whether the call
\* raised, and the alerts it emitted
add_or_replace_job(jobs, now, job_id, cron_expression, user_id, action_type, payload) ==
  LET trigger == build_trigger(cron_expression)
      kwargs == [user_id |-> user_id, action_type |-> action_type, payload |-> payload]
  IN  IF trigger.type = "error"
      THEN [jobs |-> jobs, raised |-> TRUE,
            alerts |-> <<Alert("scheduler add job failed", job_id)>>]
      ELSE [jobs |-> add_job(jobs, Job(job_id, trigger, kwargs, now), TRUE),
            raised |-> FALSE, alerts |-> <<>>]

\* ------------------------------------------------- Notification Sink
\* redis LTRIM key -n -1 keeps the last n items of the list
ltrim_last(list, n) ==
  IF Len(list) <= n THEN list ELSE SubSeq(list, Len(list) - n + 1, Len(list))

\* WorkerResultService.push on one owner's queue.  fails_at names the broker
\* call that raises or times out ("none" when all three succeed); whatever
\* fails, the envelope is appended to the in-memory deque.
push(queue, fails_at, payload, max_items_setting) ==
  LET max_items == Max(10, max_items_setting)
      pushed == Append(queue.redis, payload)
      trimmed == ltrim_last(pushed, max_items)
      fallback == Append(queue.local, payload)
  IN  CASE fails_at = "rpush" -> [redis |-> queue.redis, local |-> fallback]
        [] fails_at = "ltrim" -> [redis |-> pushed, local |-> fallback]
        [] fails_at = "expire" -> [redis |-> trimmed, local |-> fallback]
        [] OTHER -> [redis |-> trimmed, local |-> queue.local]

\* ----------------------------------------------------- execute_action
RECURSIVE lstrip(_)
lstrip(string) ==
  IF string # <<>> /\ Head(string) = " " THEN lstrip(Tail(string)) ELSE string

RECURSIVE rstrip(_)
rstrip(string) ==
  IF string # <<>> /\ string[Len(string)] = " "
  THEN rstrip(SubSeq(string, 1, Len(string) - 1)) ELSE string

strip(string) == rstrip(lstrip(string))

lower(string) ==
  [i \in 1..Len(string) |->
     CASE string[i] = "Reminder" -> "reminder"
       [] string[i] = "SEND_MESSAGE" -> "send_message"
       [] OTHER -> string[i]]

\* an action type compared as it was given
action_type_as_given(action_type) == action_type

\* str(action_type or "").strip().lower()
normalized_action_type(action_type) == lower(strip(action_type))

message_action_types ==
  {<<"send_message">>, <<"reminder">>, <<"notification">>, <<"daily_briefing">>}

\* execute_action: the envelopes it hands to worker_result_service.push, the
\* alerts it emits and whether it raises
execute_action(user_id, action_type, payload) ==
  IF normalized_action_type(action_type) \in message_action_types
  THEN [pushes |-> <<[user_id |-> user_id, job_type |-> "cron_reminder",
                      message |-> payload]>>,
        alerts |-> <<>>, raised |-> FALSE]
  ELSE [pushes |-> <<>>,
        alerts |-> <<Alert("scheduler execute action failed", action_type)>>,
        raised |-> TRUE]

\* ----------------------------------------------------- reconciliation
\* a job id filter that takes every job for a user job
is_managed_any(job_id) == TRUE

\* _is_managed_cron_job_id
is_managed_cron_job_id(job_id) == ~startswith(job_id, "global_")

\* a query without the is_active filter
select_all(table) == [id \in DOMAIN table |-> table[id]]

\* select(CronJob).where(CronJob.is_active.is_(True)), keyed by str(row.id)
select_active(table) ==
  [id \in {r \in DOMAIN table : table[r].is_active} |-> table[id]]

RECURSIVE SetToSeq(_)
SetToSeq(S) ==
  IF S = {} THEN <<>>
  ELSE LET x == CHOOSE y \in S : TRUE IN <<x>> \o SetToSeq(S \ {x})

RECURSIVE load_rows(_, _, _, _, _, _)
\* the loop over rows of _sync_jobs_from_db_internal
load_rows(ids, rows, existing_ids, force_reload_all, now, acc) ==
  IF ids = <<>> THEN acc
  ELSE LET row_id == Head(ids)
           row == rows[row_id]
           r == add_or_replace_job(acc.jobs, now, row_id, row.cron_expression,
                                   row.user_id, row.action_type, row.payload)
       IN  IF ~force_reload_all /\ row_id \in existing_ids
           THEN load_rows(Tail(ids), rows, existing_ids, force_reload_all, now, acc)
           ELSE load_rows(Tail(ids), rows, existing_ids, force_reload_all, now,
                  [jobs |-> r.jobs,
                   loaded |-> acc.loaded + (IF r.raised THEN 0 ELSE 1),
                   failed |-> acc.failed + (IF r.raised THEN 1 ELSE 0),
                   alerts |-> acc.alerts \o r.alerts])

\* a pass that reloads the rows and removes no job
sync_jobs_keep_stale(jobs, now, rows, force_reload_all) ==
  LET existing_ids == {id \in JobIds(jobs) : is_managed_cron_job_id(id)}
      added == load_rows(SetToSeq(DOMAIN rows), rows, existing_ids,
                         force_reload_all, now,
                         [jobs |-> jobs, loaded |-> 0, failed |-> 0, alerts |-> <<>>])
  IN  [jobs |-> added.jobs, loaded |-> added.loaded, failed |-> added.failed,
       removed |-> 0, alerts |-> added.alerts]

\* _sync_jobs_from_db_internal from line 108 on, given the rows it has read
sync_jobs_from_db_internal(jobs, now, rows, force_reload_all) ==
  LET active_ids == DOMAIN rows
      existing_ids == {id \in JobIds(jobs) : is_managed_cron_job_id(id)}
      added == load_rows(SetToSeq(active_ids), rows, existing_ids,
                         force_reload_all, now,
                         [jobs |-> jobs, loaded |-> 0, failed |-> 0, alerts |-> <<>>])
      stale_ids == existing_ids \ active_ids
  IN  [jobs |-> SelectSeq(added.jobs, LAMBDA j : j.id \notin stale_ids),
       loaded |-> added.loaded, failed |-> added.failed,
       removed |-> Cardinality(stale_ids), alerts |-> added.alerts]

\* ------------------------------------------------ the scheduler process
worker_vars == <<store, ready, processing, retry, pc, ops, cur, handler_calls,
                 handler_fails, alerts, loop_alerts, notifications, enq, users,
                 delay, crashes>>

\* no task, no caller, one idle dispatcher
WorkerIdle ==
  /\ store = <<>> /\ ready = <<>> /\ processing = <<>> /\ retry = <<>>
  /\ pc = <<"idle">> /\ ops = << <<>> >> /\ cur = <<0>>
  /\ handler_calls = [t \in TaskIds |-> 0]
  /\ handler_fails = [t \in TaskIds |-> 0]
  /\ alerts = [t \in TaskIds |-> 0]
  /\ loop_alerts = 0
  /\ notifications = [t \in TaskIds |-> <<>>]
  /\ enq = <<>>
  /\ users = {"u1"}
  /\ delay = [base |-> WORKER_RETRY_BASE_DELAY_SECONDS,
              max |-> WORKER_RETRY_MAX_DELAY_SECONDS, n |-> 0, out |-> 0, prev |-> 0]
  /\ crashes = 0

\* cron expressions that pass CronJobCreate.validate_cron_expression: five
\* fields, six fields, and a one-shot due at clock value 1
CronExpressions ==
  {<<"*/5", "*", "*", "*", "*">>, <<"0", "0", "9", "*", "*", "*">>,
   <<"@once:", "T1">>}

\* the rows create_cron_job can have committed
CronRows ==
  [user_id : {"u1"}, cron_expression : CronExpressions,
   action_type : {<<"send_message">>}, payload : {"x"}, is_active : BOOLEAN]

\* The process starts over a table that holds the rows committed by earlier
\* runs of the application.
InitScheduler ==
  /\ WorkerIdle
  /\ \E ids \in {{}, {<<"uuid1">>}, RowIds} :
       /\ cron_jobs \in [ids -> CronRows]
       /\ request = [NoRequest EXCEPT !.used = ids]
  /\ scheduler = [running |-> FALSE, serving |-> FALSE, jobs |-> <<>>]
  /\ sync = NoSync
  /\ invoked = NoCall
  /\ clock = 0
  /\ executions = <<>>
  /\ scheduler_alerts = <<>>
  /\ result_queue = [u \in Owners |-> [redis |-> <<>>, local |-> <<>>]]
  /\ broker = [up |-> TRUE, outages |-> 0, timeouts |-> 0]
  /\ settings = [WORKER_RESULT_QUEUE_MAX_ITEMS |-> WORKER_RESULT_QUEUE_MAX_ITEMS]
  /\ pop_calls = [c \in 1..MaxPoppers |-> NoPop]
  /\ popped = <<>>

SystemJob(id, now) ==
  Job(id, [type |-> "interval", run_date |-> NoTime, fields |-> <<>>], NoKwargs, now)

\* start(): the scheduler starts and registers its two interval jobs
start(jobs, now) ==
  add_job(add_job(jobs, SystemJob(global_proactive_ping, now), TRUE),
          SystemJob(global_cron_sync, now), TRUE)

\* lifespan: scheduler_service.start(), then bootstrap_from_db() up to the
\* rows its query returns; a failing query ends the bootstrap with an alert.
Startup ==
  /\ ~scheduler.running /\ sync.pc = "idle"
  /\ \E db_ok \in BOOLEAN :
       IF db_ok
       THEN /\ scheduler' = [scheduler EXCEPT !.running = TRUE,
                                              !.jobs = start(scheduler.jobs, clock)]
            /\ sync' = [sync EXCEPT !.pc = "rows", !.force = TRUE,
                                    !.rows = select_active(cron_jobs)]
            /\ UNCHANGED scheduler_alerts
       ELSE /\ scheduler' = [scheduler EXCEPT !.running = TRUE, !.serving = TRUE,
                                              !.jobs = start(scheduler.jobs, clock)]
            /\ sync' = [sync EXCEPT !.last = [kind |-> "bootstrap failed", loaded |-> 0,
                                              failed |-> 0, removed |-> 0]]
            /\ scheduler_alerts' =
                 Append(scheduler_alerts, Alert("scheduler bootstrap failed", <<>>))
  /\ UNCHANGED <<worker_vars, cron_jobs, request, invoked, clock, executions,
                 result_queue, broker, settings,
                 pop_calls, popped>>

\* the interval job global_cron_sync fires: sync_jobs_from_db() up to the
\* rows its query returns
PeriodicSync ==
  /\ scheduler.running /\ scheduler.serving /\ sync.pc = "idle"
  /\ global_cron_sync \in JobIds(scheduler.jobs)
  /\ sync.passes < MaxPasses
  /\ \E db_ok \in BOOLEAN :
       IF db_ok
       THEN /\ sync' = [sync EXCEPT !.pc = "rows", !.force = FALSE,
                                    !.rows = select_active(cron_jobs),
                                    !.passes = @ + 1]
            /\ UNCHANGED scheduler_alerts
       ELSE /\ sync' = [sync EXCEPT !.passes = @ + 1,
                                    !.last = [kind |-> "sync failed", loaded |-> 0,
                                              failed |-> 0, removed |-> 0]]
            /\ scheduler_alerts' =
                 Append(scheduler_alerts, Alert("scheduler periodic sync failed", <<>>))
  /\ UNCHANGED <<worker_vars, cron_jobs, scheduler, request, invoked, clock,
                 executions, result_queue, broker, settings,
                 pop_calls, popped>>

\* the pass goes on after its database session is closed: lines 108-139
Reconcile ==
  /\ sync.pc = "rows"
  /\ LET r == sync_jobs_from_db_internal(scheduler.jobs, clock, sync.rows, sync.force)
     IN  /\ scheduler' = [scheduler EXCEPT !.jobs = r.jobs, !.serving = TRUE]
         /\ scheduler_alerts' = scheduler_alerts \o r.alerts
         /\ sync' = [sync EXCEPT !.pc = "idle", !.rows = <<>>,
                                 !.last = [kind |-> IF sync.force THEN "bootstrap" ELSE "sync",
                                           loaded |-> r.loaded, failed |-> r.failed,
                                           removed |-> r.removed]]
  /\ UNCHANGED <<worker_vars, cron_jobs, request, invoked, clock, executions,
                 result_queue, broker, settings,
                 pop_calls, popped>>

\* ------------------------------------------------------- the cron API
\* create_cron_job, lines 21-35: the row is committed under a fresh id
CreateCronJob ==
  /\ scheduler.serving /\ request.pc = "none"
  /\ \E id \in RowIds \ request.used, row \in CronRows :
       /\ cron_jobs' = [x \in DOMAIN cron_jobs \cup {id} |->
                          IF x = id THEN row ELSE cron_jobs[x]]
       /\ request' = [request EXCEPT !.pc = "created", !.id = id,
                                     !.used = @ \cup {id}]
  /\ UNCHANGED <<worker_vars, scheduler, sync, invoked, clock, executions,
                 scheduler_alerts, result_queue, broker, settings,
                 pop_calls, popped>>

\* create_cron_job, lines 38-44
register_created(jobs, now, job_id, row) ==
  add_or_replace_job(jobs, now, job_id, row.cron_expression, row.user_id,
                     row.action_type, row.payload)

\* create_cron_job, lines 37-45: the trigger of the committed row
CreateCronJobRegister ==
  /\ request.pc = "created"
  /\ LET r == register_created(scheduler.jobs, clock, request.id, cron_jobs[request.id])
     IN  IF scheduler.running
         THEN /\ scheduler' = [scheduler EXCEPT !.jobs = r.jobs]
              /\ scheduler_alerts' = scheduler_alerts \o r.alerts
         ELSE UNCHANGED <<scheduler, scheduler_alerts>>
  /\ request' = [request EXCEPT !.pc = "none", !.id = <<>>]
  /\ UNCHANGED <<worker_vars, cron_jobs, sync, invoked, clock, executions,
                 result_queue, broker, settings,
                 pop_calls, popped>>

\* delete_cron_job, lines 67-73: the row is found and its trigger removed
DeleteCronJob ==
  /\ scheduler.serving /\ request.pc = "none"
  /\ \E id \in DOMAIN cron_jobs :
       /\ scheduler' =
            IF scheduler.running /\ get_job(scheduler.jobs, id) # <<>>
            THEN [scheduler EXCEPT !.jobs = remove_job(scheduler.jobs, id)]
            ELSE scheduler
       /\ request' = [request EXCEPT !.pc = "removed", !.id = id]
  /\ UNCHANGED <<worker_vars, cron_jobs, sync, invoked, clock, executions,
                 scheduler_alerts, result_queue, broker, settings,
                 pop_calls, popped>>

\* delete_cron_job, lines 75-76: the row is deleted and the deletion committed
DeleteCronJobCommit ==
  /\ request.pc = "removed"
  /\ cron_jobs' = [x \in DOMAIN cron_jobs \ {request.id} |-> cron_jobs[x]]
  /\ request' = [request EXCEPT !.pc = "none", !.id = <<>>]
  /\ UNCHANGED <<worker_vars, scheduler, sync, invoked, clock, executions,
                 scheduler_alerts, result_queue, broker, settings,
                 pop_calls, popped>>

\* ----------------------------------------------------- firing of a job
RECURSIVE push_all(_, _, _, _)
\* the pushes of one execute_action, each on its owner's queue
push_all(pushes, queues, fails_at, max_items_setting) ==
  IF pushes = <<>> THEN queues
  ELSE push_all(Tail(pushes),
                [queues EXCEPT ![Head(pushes).user_id] =
                   push(@, fails_at, Head(pushes), max_items_setting)],
                fails_at, max_items_setting)

\* The scheduler wakes up and processes one due user job.  The run time of
\* a date trigger is its run_date, that of a cron trigger the occurrence
\* just reached; a run time older than misfire_grace_time is skipped as
\* missed.  A job without a next fire time leaves the job store.
ProcessJob ==
  /\ scheduler.running
  /\ \E i \in 1..Len(scheduler.jobs) :
       LET job == scheduler.jobs[i]
           run_time == IF job.trigger.type = "date" THEN job.trigger.run_date ELSE clock
           runs == clock - run_time <= misfire_grace_time
           r == execute_action(job.kwargs.user_id, job.kwargs.action_type,
                               job.kwargs.payload)
       IN  /\ is_managed_cron_job_id(job.id)
           /\ job.next_run_time <= clock
           /\ scheduler' =
                [scheduler EXCEPT !.jobs =
                   IF job.trigger.type = "date"
                   THEN SelectSeq(scheduler.jobs, LAMBDA j : j # job)
                   ELSE [scheduler.jobs EXCEPT ![i].next_run_time = clock + 1]]
           /\ IF runs
              THEN /\ executions' = Append(executions,
                                           [id |-> job.id, run_time |-> run_time,
                                            raised |-> r.raised])
                   /\ scheduler_alerts' = scheduler_alerts \o r.alerts
                   /\ result_queue' =
                        push_all(r.pushes, result_queue,
                                 IF broker.up THEN "none" ELSE "rpush",
                                 settings.WORKER_RESULT_QUEUE_MAX_ITEMS)
              ELSE UNCHANGED <<executions, scheduler_alerts, result_queue>>
  /\ UNCHANGED <<worker_vars, cron_jobs, sync, request, invoked, clock, broker,
                 settings,
                 pop_calls, popped>>

\* time passes
ClockTick ==
  /\ clock < MaxClock
  /\ clock' = clock + 1
  /\ UNCHANGED <<worker_vars, cron_jobs, scheduler, sync, request, invoked,
                 executions, scheduler_alerts, result_queue, broker, settings,
                 pop_calls, popped>>

NextScheduler ==
  \/ Startup
  \/ PeriodicSync
  \/ Reconcile
  \/ CreateCronJob
  \/ CreateCronJobRegister
  \/ DeleteCronJob
  \/ DeleteCronJobCommit
  \/ ProcessJob
  \/ ClockTick

SpecScheduler == InitScheduler /\ [][NextScheduler]_vars

\* ------------------------------------------- direct calls of the service
\* expressions a caller can pass: those of CronExpressions, a second
\* five-field expression, a one-shot with an unparsable timestamp and a
\* string that is no cron expression
CallExpressions ==
  CronExpressions \cup
  {<<"0", "9", "*", "*", "*">>, <<"@once:", "soon">>, <<"every", "day">>}

\* action types a caller can pass; <<>> is the empty string of a missing one
ActionTypes ==
  {<<"send_message">>, <<" ", "Reminder", " ">>, <<"notification">>,
   <<"daily_briefing">>, <<"SEND_MESSAGE">>, <<"run_script">>, <<>>}

\* a started scheduler that holds its two interval jobs; the broker is up or down
InitCalls ==
  /\ WorkerIdle
  /\ cron_jobs = <<>>
  /\ scheduler = [running |-> TRUE, serving |-> FALSE, jobs |-> start(<<>>, 0)]
  /\ sync = NoSync
  /\ request = NoRequest
  /\ invoked = NoCall
  /\ clock = 0
  /\ executions = <<>>
  /\ scheduler_alerts = <<>>
  /\ result_queue = [u \in Owners |-> [redis |-> <<>>, local |-> <<>>]]
  /\ \E up \in BOOLEAN : broker = [up |-> up, outages |-> 0, timeouts |-> 0]
  /\ settings = [WORKER_RESULT_QUEUE_MAX_ITEMS |-> WORKER_RESULT_QUEUE_MAX_ITEMS]
  /\ pop_calls = [c \in 1..MaxPoppers |-> NoPop]
  /\ popped = <<>>

\* scheduler_service.add_or_replace_job(job_id, cron_expression, user_id,
\* action_type, payload) is called
CallAddOrReplaceJob ==
  /\ scheduler.running /\ invoked.count < MaxCalls
  /\ \E job_id \in RowIds, cron_expression \in CallExpressions,
        action_type \in {<<"send_message">>}, payload \in {"x", "y"} :
       LET r == add_or_replace_job(scheduler.jobs, clock, job_id, cron_expression,
                                   "u1", action_type, payload)
           args == [job_id |-> job_id, cron_expression |-> cron_expression,
                    user_id |-> "u1", action_type |-> action_type,
                    payload |-> payload]
       IN  /\ scheduler' = [scheduler EXCEPT !.jobs = r.jobs]
           /\ scheduler_alerts' = scheduler_alerts \o r.alerts
           /\ invoked' = [op |-> "add_or_replace_job", args |-> args,
                          raised |-> r.raised, pushes |-> 0,
                          count |-> invoked.count + 1,
                          repeats |-> invoked.op = "add_or_replace_job"
                                      /\ invoked.args = args]
  /\ UNCHANGED <<worker_vars, cron_jobs, sync, request, clock, executions,
                 result_queue, broker, settings,
                 pop_calls, popped>>

\* scheduler_service.execute_action(user_id, action_type, payload) is called
CallExecuteAction ==
  /\ invoked.count < MaxCalls
  /\ \E user_id \in Owners, action_type \in ActionTypes :
       LET r == execute_action(user_id, action_type, "x")
       IN  /\ result_queue' =
                push_all(r.pushes, result_queue,
                         IF broker.up THEN "none" ELSE "rpush",
                         settings.WORKER_RESULT_QUEUE_MAX_ITEMS)
           /\ scheduler_alerts' = scheduler_alerts \o r.alerts
           /\ invoked' = [op |-> "execute_action",
                          args |-> [user_id |-> user_id, action_type |-> action_type,
                                    payload |-> "x"],
                          raised |-> r.raised, pushes |-> Len(r.pushes),
                          count |-> invoked.count + 1, repeats |-> FALSE]
  /\ UNCHANGED <<worker_vars, cron_jobs, scheduler, sync, request, clock,
                 executions, broker, settings,
                 pop_calls, popped>>

NextCalls == CallAddOrReplaceJob \/ CallExecuteAction

SpecCalls == InitCalls /\ [][NextCalls]_vars

\* ------------------------------------------- the Notification Sink alone
\* values of WORKER_RESULT_QUEUE_MAX_ITEMS that the environment can set
MaxItemsSettings == {5, 10}

\* max(10, int(settings.WORKER_RESULT_QUEUE_MAX_ITEMS))
max_items(max_items_setting) == Max(10, max_items_setting)

\* empty result queues, the broker up, the setting drawn
InitSink ==
  /\ WorkerIdle
  /\ cron_jobs = <<>>
  /\ scheduler = [running |-> FALSE, serving |-> FALSE, jobs |-> <<>>]
  /\ sync = NoSync
  /\ request = NoRequest
  /\ invoked = NoCall
  /\ clock = 0
  /\ executions = <<>>
  /\ scheduler_alerts = <<>>
  /\ result_queue = [u \in Owners |-> [redis |-> <<>>, local |-> <<>>]]
  /\ broker = [up |-> TRUE, outages |-> 0, timeouts |-> 0]
  /\ \E m \in MaxItemsSettings : settings = [WORKER_RESULT_QUEUE_MAX_ITEMS |-> m]
  /\ pop_calls = [c \in 1..MaxPoppers |-> NoPop]
  /\ popped = <<>>

\* worker_result_service.push(user_id, payload): the n-th envelope pushed.
\* With the broker down rpush raises; with the broker up all three calls
\* succeed or one of the later two runs into its 0.5 s timeout.
PushWithin(max_pushes) ==
  /\ invoked.count < max_pushes
  /\ \E fails_at \in {"none", "rpush", "ltrim", "expire"} :
       /\ fails_at = "rpush" <=> ~broker.up
       /\ fails_at \in {"ltrim", "expire"} => broker.timeouts < MaxTimeouts
       /\ result_queue' =
            [result_queue EXCEPT !["u1"] =
               push(@, fails_at, [user_id |-> "u1", n |-> invoked.count + 1],
                    settings.WORKER_RESULT_QUEUE_MAX_ITEMS)]
       /\ broker' = [broker EXCEPT !.timeouts =
                       IF fails_at \in {"ltrim", "expire"} THEN @ + 1 ELSE @]
       /\ invoked' = [NoCall EXCEPT !.op = "push", !.pushes = 1,
                                    !.count = invoked.count + 1]
  /\ UNCHANGED <<worker_vars, cron_jobs, scheduler, sync, request, clock,
                 executions, scheduler_alerts, settings,
                 pop_calls, popped>>

Push == PushWithin(MaxPushes)

\* the broker becomes unreachable
BrokerFails ==
  /\ broker.up /\ broker.outages < MaxOutages
  /\ broker' = [broker EXCEPT !.up = FALSE, !.outages = @ + 1]
  /\ UNCHANGED <<worker_vars, cron_jobs, scheduler, sync, request, invoked, clock,
                 executions, scheduler_alerts, result_queue, settings,
                 pop_calls, popped>>

\* the broker is reachable again
BrokerRecovers ==
  /\ ~broker.up
  /\ broker' = [broker EXCEPT !.up = TRUE]
  /\ UNCHANGED <<worker_vars, cron_jobs, scheduler, sync, request, invoked, clock,
                 executions, scheduler_alerts, result_queue, settings,
                 pop_calls, popped>>

NextSink == Push \/ BrokerFails \/ BrokerRecovers

SpecSink == InitSink /\ [][NextSink]_vars

\* ------------------------------------------------------------- pop_many
\* values of the query parameter limit of GET /worker-results/poll: one
\* item at a time and the default
Limits == {1, 20}

\* count = max(1, min(limit, 100))
pop_count(limit) == Max(1, Min(limit, 100))

\* redis LRANGE key 0 count-1
lrange(list, count) == SubSeq(list, 1, Min(Len(list), count))

\* redis LTRIM key count -1
ltrim(list, count) ==
  IF Len(list) <= count THEN <<>> ELSE SubSeq(list, count + 1, Len(list))

\* _pop_many_in_memory and lines 59-71 of pop_many: up to count items are
\* taken from the left of the in-memory deque
pop_many_in_memory(queue, count) ==
  [items |-> lrange(queue, count), queue |-> ltrim(queue, count)]

\* pop_many, lines 39-44 and 55-71: the caller reads the head of the broker
\* list.  A non-empty answer is kept for the trim; an empty list, or a broker
\* that cannot be reached, makes the call return what the in-memory deque
\* holds.
PopManyRead(c) ==
  /\ pop_calls[c].pc = "idle"
  /\ \E limit \in Limits :
       LET count == pop_count(limit)
           raw_items == lrange(result_queue["u1"].redis, count)
           memory == pop_many_in_memory(result_queue["u1"].local, count)
       IN  IF broker.up /\ raw_items # <<>>
           THEN /\ pop_calls' = [pop_calls EXCEPT ![c] =
                                   [pc |-> "trim", count |-> count,
                                    raw_items |-> raw_items]]
                /\ UNCHANGED <<result_queue, popped>>
           ELSE /\ result_queue' = [result_queue EXCEPT !["u1"].local = memory.queue]
                /\ popped' = popped \o memory.items
                /\ UNCHANGED pop_calls
  /\ UNCHANGED <<worker_vars, cron_jobs, scheduler, sync, request, invoked, clock,
                 executions, scheduler_alerts, broker, settings>>

\* pop_many, lines 45-57: the first count entries are trimmed off the broker
\* list and the items read before are returned; when the trim raises the
\* call returns what the in-memory deque holds instead
PopManyTrim(c) ==
  /\ pop_calls[c].pc = "trim"
  /\ LET call == pop_calls[c]
         memory == pop_many_in_memory(result_queue["u1"].local, call.count)
     IN  IF broker.up
         THEN /\ result_queue' = [result_queue EXCEPT !["u1"].redis = ltrim(@, call.count)]
              /\ popped' = popped \o call.raw_items
         ELSE /\ result_queue' = [result_queue EXCEPT !["u1"].local = memory.queue]
              /\ popped' = popped \o memory.items
  /\ pop_calls' = [pop_calls EXCEPT ![c] = NoPop]
  /\ UNCHANGED <<worker_vars, cron_jobs, scheduler, sync, request, invoked, clock,
                 executions, scheduler_alerts, broker, settings>>

\* the pushes that the polls interleave with
PushPolled == PushWithin(MaxPolledPushes)

\* pushes by the worker and the scheduler, polls by the owner's clients
NextPop ==
  \/ PushPolled
  \/ \E c \in DOMAIN pop_calls : PopManyRead(c)
  \/ \E c \in DOMAIN pop_calls : PopManyTrim(c)
  \/ BrokerFails
  \/ BrokerRecovers

SpecPop == InitSink /\ [][NextPop]_vars

\* ================================================================ claims
Terminal == {"success", "failed"}
BetweenIterations == \A d \in DOMAIN pc : pc[d] = "idle" /\ ops[d] = <<>>
HasRow(t) == t \in DOMAIN store
StatusOf(t) == IF HasRow(t) THEN store[t].status ELSE "absent"
AttemptsOf(t) == IF HasRow(t) THEN store[t].attempt_count ELSE 0
RetriesOf(t) == IF HasRow(t) THEN store[t].max_retries ELSE 0

AllowedTransitions ==
  {<<"queued", "running">>, <<"running", "success">>,
   <<"running", "retry_scheduled">>, <<"running", "failed">>,
   <<"retry_scheduled", "queued">>}

\* C1: every change of a task's stored status, by whatever step of the
\* dispatcher (processing, failure path, promotion, both recovery passes), is
\* one of Queued->Running, Running->Success, Running->RetryScheduled,
\* Running->Failed, RetryScheduled->Queued.
C1_StatusTransitions ==
  [][\A t \in DOMAIN store :
       store'[t].status # store[t].status
         => <<store[t].status, store'[t].status>> \in AllowedTransitions]_vars

\* C1 witness: a task went Queued -> Running -> Failed and another one
\* Queued -> Running -> Success.
C1_Witness ==
  \E t, u \in DOMAIN store :
    /\ store[t].status = "failed" /\ store[t].attempt_count = 1
    /\ store[u].status = "success"

\* C2: once a task's stored status is Success or Failed, no later step
\* changes its status or attempt_count or invokes its handler again (so it
\* enters a terminal state at most once).
C2_TerminalIsFinal ==
  [][\A t \in DOMAIN store :
       store[t].status \in Terminal
         => /\ store'[t].status = store[t].status
            /\ store'[t].attempt_count = store[t].attempt_count
            /\ handler_calls'[t] = handler_calls[t]]_vars

\* C2 witness: a terminal task whose started_at is older than the lease has
\* been passed over by both recovery passes and the promotion of a later
\* iteration.
C2_Witness ==
  \E t \in DOMAIN store :
    /\ store[t].status \in Terminal
    /\ store[t].started_at > lease_seconds
    /\ t \notin SeqToSet(processing)
    /\ \E d \in DOMAIN pc : pc[d] = "dequeue"

\* C3: with one dispatcher, no crash, handlers that return or raise and an
\* advancing clock, every enqueued task eventually reaches Success or Failed.
C3_EventuallyTerminal ==
  \A t \in TaskIds :
    [](HasRow(t) => <>(StatusOf(t) \in Terminal))

\* C4: after a crash anywhere inside a dispatcher iteration and a restart,
\* every task persisted as non-terminal still eventually reaches Success or
\* Failed.
C4_CrashEventuallyTerminal ==
  \A t \in TaskIds :
    []((crashes > 0 /\ HasRow(t) /\ StatusOf(t) \notin Terminal)
         => <>(StatusOf(t) \in Terminal))

\* C5: each failed attempt increments attempt_count by exactly 1; with the
\* new attempt_count <= max_retries the task is RetryScheduled, next_retry_at
\* set and its id in the Retry Set (until it is promoted back to Queued),
\* otherwise it is Failed with completed_at set and not in the Retry Set.
C5_FailurePath ==
  BetweenIterations =>
    \A t \in DOMAIN store :
      /\ store[t].attempt_count = handler_fails[t]
      /\ (handler_fails[t] > 0 /\ store[t].status \notin {"success", "queued"})
           => IF store[t].attempt_count <= store[t].max_retries
              THEN /\ store[t].status = "retry_scheduled"
                   /\ store[t].next_retry_at = "set"
                   /\ t \in RetryIds
              ELSE /\ store[t].status = "failed"
                   /\ store[t].completed_at = "set"
                   /\ t \notin RetryIds

\* C6: a task with max_retries = m whose handler has failed on every call is
\* RetryScheduled (or promoted to Queued again) after each of the first m
\* calls, Failed with attempt_count = m+1 and exactly one permanent-failure
\* alert after call m+1, and its handler is never called more than m+1 times.
C6_AlwaysFailing ==
  BetweenIterations =>
    \A t \in DOMAIN store :
      (handler_calls[t] > 0 /\ handler_fails[t] = handler_calls[t])
        => /\ handler_calls[t] <= store[t].max_retries + 1
           /\ store[t].attempt_count = handler_calls[t]
           /\ IF handler_calls[t] <= store[t].max_retries
              THEN store[t].status \in {"retry_scheduled", "queued"} /\ alerts[t] = 0
              ELSE store[t].status = "failed" /\ alerts[t] = 1

\* C7: a task with max_retries = m whose handler has failed k <= m times gets
\* attempt k+1, and when that attempt succeeds the task is Success with
\* attempt_count = k, error cleared and completed_at set.
C7_SucceedsAfterRetries ==
  /\ \A t \in TaskIds : \A k \in 1..MaxRetries :
       []((HasRow(t) /\ handler_fails[t] = k /\ handler_calls[t] = k
              /\ k <= RetriesOf(t))
            => <>(handler_calls[t] = k + 1))
  /\ [](BetweenIterations =>
          \A t \in DOMAIN store :
            handler_calls[t] = handler_fails[t] + 1
              => /\ store[t].status = "success"
                 /\ store[t].attempt_count = handler_fails[t]
                 /\ store[t].error = "None"
                 /\ store[t].completed_at = "set")

\* C8: a task left Running with started_at older than the lease is put
\* through the failure path by the loop: its attempt_count rises by 1 and it
\* becomes RetryScheduled or Failed.
C8_LeaseRecovery ==
  \A t \in TaskIds : \A a \in 0..MaxRetries :
    []((BetweenIterations /\ t \in StaleRunning(store) /\ AttemptsOf(t) = a)
         => <>(StatusOf(t) \in {"retry_scheduled", "failed"}
               /\ AttemptsOf(t) = a + 1))

\* the durable state after one complete Processing List recovery pass
AfterRecoveryPass(s) == ApplyAll(recover_processing_queue(s), s)

C10_NeverInNeitherList ==
  \A t \in DOMAIN store :
    (store[t].status \in {"queued", "running"} /\ t \notin RetryIds)
      => t \in SeqToSet(ready) \cup SeqToSet(processing)

\* C11: an enqueue call returns deduplicated (with the existing task, no row
\* created, nothing pushed) exactly when its lookup ran over a non-terminal
\* row with the same dedupe key created inside the dedup window; any other
\* call returns enqueued after persisting exactly one new row, queued with
\* attempt_count 0, and pushing that row's id once on the Ready List.
C11_EnqueueContract ==
  /\ [](\A c \in DOMAIN enq :
          enq[c].pc = "done"
            => IF enq[c].found # 0
               THEN enq[c].result = "deduplicated" /\ enq[c].task = enq[c].found
               ELSE enq[c].result = "enqueued" /\ enq[c].task # 0)
  /\ [][\A c \in DOMAIN enq :
          enq'[c] # enq[c]
            => /\ enq'[c].result = "deduplicated" => store' = store /\ ready' = ready
               /\ DOMAIN store' # DOMAIN store
                    => /\ DOMAIN store' = DOMAIN store \cup {enq'[c].task}
                       /\ store'[enq'[c].task].status = "queued"
                       /\ store'[enq'[c].task].attempt_count = 0
                       /\ store'[enq'[c].task].dedupe_key = enq[c].key
               /\ ready' # ready
                    => /\ ready' = Lpush(ready, enq[c].task)
                       /\ enq[c].task \notin SeqToSet(ready)
                       /\ enq'[c].result = "enqueued"]_vars

\* the clock has not moved since the rows of the initial store were created,
\* so everything that has happened lies inside one dedup window
InsideOneWindow ==
  /\ DOMAIN store # {}
  /\ \A t \in DOMAIN store : store[t].created_at = 0

\* the task an enqueue call has produced (0 if none)
Produced(c) == IF enq[c].result = "enqueued" \/ enq[c].pc = "push" THEN enq[c].task ELSE 0

\* C12: among the tasks produced by enqueue calls with the same job type,
\* owner and normalized payload inside one dedup window at most one is
\* Running, and a call whose lookup runs after an earlier such call has
\* returned comes back deduplicated with the id of the earlier call's task.
C12_DedupWithinWindow ==
  /\ [](\A c, d \in DOMAIN enq :
          (/\ c # d /\ enq[c].key = enq[d].key
           /\ Produced(c) # 0 /\ Produced(d) # 0 /\ Produced(c) # Produced(d)
           /\ InsideOneWindow)
            => ~(StatusOf(Produced(c)) = "running" /\ StatusOf(Produced(d)) = "running"))
  /\ [](\A c, d \in DOMAIN enq :
          (/\ c # d /\ enq[c].pc = "done" /\ enq[d].pc = "done"
           /\ enq[d].seen[c] = "done" /\ enq[c].key = enq[d].key
           /\ InsideOneWindow)
            => /\ enq[d].result = "deduplicated"
               /\ enq[c].task # 0
               /\ enq[d].task = enq[c].task)

\* when the lookup of call d ran, call c had not committed a row
NotInsertedAtLookup(d, c) ==
  \/ enq[d].seen[c] \in {"start", "insert"}
  \/ enq[d].seen[c] = "done" /\ enq[c].result # "enqueued"

\* the dispatcher has not dequeued task t yet
NotDequeued(t) == handler_calls[t] = 0 /\ t \notin SeqToSet(processing)

\* C13: two enqueue calls with the same dedupe key, each of whose lookups ran
\* before the other call's insert (and over a store without a matching row),
\* both return enqueued and leave two distinct non-terminal tasks with that
\* key, each with its id on the Ready List until the dispatcher takes it.
C13_ConcurrentEnqueueRace ==
  \A c, d \in DOMAIN enq :
    (/\ c # d /\ enq[c].pc = "done" /\ enq[d].pc = "done"
     /\ enq[c].key = enq[d].key
     /\ enq[c].found = 0 /\ enq[d].found = 0
     /\ NotInsertedAtLookup(c, d) /\ NotInsertedAtLookup(d, c))
      => /\ enq[c].result = "enqueued" /\ enq[d].result = "enqueued"
         /\ enq[c].task # enq[d].task
         /\ \A t \in {enq[c].task, enq[d].task} :
              /\ HasRow(t)
              /\ store[t].dedupe_key = enq[c].key
              /\ NotDequeued(t) => store[t].status = "queued" /\ t \in SeqToSet(ready)

\* occurrences of an id in a list
Count(list, id) == Len(SelectSeq(list, LAMBDA x : x = id))

\* dispatcher d is handed id t by its dequeue in this step
HandedTo(d, t) == pc[d] = "dequeue" /\ pc'[d] = "process" /\ cur'[d] = t

\* C14: with several dispatcher instances dequeuing from the same Ready List,
\* an occurrence of an id leaves the Ready List only by being handed to
\* exactly one dispatcher (and put on the Processing List), and every
\* hand-out takes exactly one occurrence off the Ready List: one hand-out per
\* push, no id lost.
C14_OneHandOutPerPush ==
  [][\A t \in TaskIds :
       /\ Count(ready', t) < Count(ready, t)
            => /\ Count(ready', t) = Count(ready, t) - 1
               /\ Cardinality({d \in DOMAIN pc : HandedTo(d, t)}) = 1
               /\ Count(processing', t) = Count(processing, t) + 1
       /\ (\E d \in DOMAIN pc : HandedTo(d, t))
            => /\ Count(ready', t) = Count(ready, t) - 1
               /\ Cardinality({d \in DOMAIN pc : HandedTo(d, t)}) = 1]_vars

\* C14 witness: two dispatchers have each been handed a different id of the
\* same Ready List and hold it at the same time.
C14_Witness ==
  \E d, e \in DOMAIN pc :
    /\ d # e
    /\ pc[d] = "process" /\ pc[e] = "process"
    /\ cur[d] # cur[e]
    /\ ready = <<>>

\* the positions of a dispatcher that is inside its while loop
LoopPositions ==
  {"idle", "recover_stale", "promote", "dequeue", "process", "invoke", "handler"}

\* the next write of dispatcher d's plan is an exception leaving run_once
AboutToRaise(d) == d \in DOMAIN pc /\ ops[d] # <<>> /\ Head(ops[d]).op = "raise"

\* C15: an exception that leaves run_once is caught by run_forever: it adds
\* one critical alert, the dispatcher is back at the top of its loop, it
\* starts another iteration, and it never leaves the loop.
C15_LoopSurvivesException ==
  /\ [][\A d \in DOMAIN pc :
          (AboutToRaise(d) /\ ops'[d] # ops[d] /\ crashes' = crashes)
            => /\ loop_alerts' = Min(MaxLoopAlerts, loop_alerts + 1)
               /\ pc'[d] = "idle"
               /\ ops'[d] = <<>>]_vars
  /\ [](\A d \in DOMAIN pc : pc[d] \in LoopPositions)
  /\ \A d \in 1..MaxDispatchers :
       [](AboutToRaise(d) => <>(d \in DOMAIN pc /\ pc[d] = "recover_stale"))

\* C15 witness: after an exception was caught and alerted, the dispatcher is
\* in the middle of a later iteration.
C15_Witness ==
  /\ loop_alerts > 0
  /\ \E d \in DOMAIN pc : pc[d] = "promote" /\ ops[d] = <<>>

\* task t has a row whose job_type has no registered handler
Unregistered(t) == HasRow(t) /\ store[t].job_type \notin handlers

\* C16: a task whose job_type has no registered handler is never
\* RetryScheduled and never in the Retry Set, no handler is called for it,
\* and once the iteration that processed it is over it is Failed, whatever
\* its max_retries.
C16_NoHandlerNoRetry ==
  \A t \in TaskIds :
    Unregistered(t)
      => /\ store[t].status \in {"queued", "running", "failed"}
         /\ t \notin RetryIds
         /\ handler_calls[t] = 0
         /\ (BetweenIterations /\ store[t].status # "queued")
              => store[t].status = "failed"

\* no dispatcher has a write of its current plan outstanding
NoPendingWrites == \A d \in DOMAIN ops : ops[d] = <<>>

Owned(t) == HasRow(t) /\ store[t].user_id # ""

\* C17 as stated: an owned task has no envelope while it is not terminal
\* (queued, running, retry_scheduled), never more than one, and exactly one,
\* of the kind of its terminal status, once it is Success or Failed and the
\* writes of that step are done.
C17_ExactlyOneEnvelope ==
  \A t \in TaskIds :
    Owned(t)
      => /\ Len(notifications[t]) <= 1
         /\ store[t].status \notin Terminal => notifications[t] = <<>>
         /\ (store[t].status \in Terminal /\ NoPendingWrites)
              => notifications[t] = <<store[t].status>>

\* C17 amended: as above, except that a terminal task is left without any
\* envelope when the process crashed between the commit of the terminal
\* status and the push; no recovery pass pushes one later.
C17_AtMostOneEnvelope ==
  \A t \in TaskIds :
    Owned(t)
      => /\ Len(notifications[t]) <= 1
         /\ store[t].status \notin Terminal => notifications[t] = <<>>
         /\ (store[t].status \in Terminal /\ NoPendingWrites)
              => \/ notifications[t] = <<store[t].status>>
                 \/ crashes > 0 /\ notifications[t] = <<>>

\* C17 witness: after a crash and the recovery passes of later iterations,
\* one task is Success with its one success envelope and another is Failed
\* with its one failure envelope.
C17_Witness ==
  /\ crashes > 0
  /\ BetweenIterations
  /\ \E t, u \in DOMAIN store :
       /\ store[t].status = "success" /\ notifications[t] = <<"success">>
       /\ store[u].status = "failed" /\ notifications[u] = <<"failed">>

\* C18: the delay computed for attempt_count n >= 1 is
\* min(max_delay, base * 2^(n-1)), base and max_delay being the values the
\* function works with (base at least 1, max_delay at least base); it never
\* exceeds max_delay and is not smaller than the delay computed for n - 1.
C18_RetryDelay ==
  delay.n >= 1
    => LET base == Max(1, delay.base)
           max_delay == Max(base, delay.max)
       IN /\ delay.out = Min(max_delay, base * (2 ^ (delay.n - 1)))
          /\ delay.out <= max_delay
          /\ delay.out >= base
          /\ delay.n >= 2 => delay.out >= delay.prev

\* C18 witness: with the default settings the delay has grown, reached the
\* cap and stayed there.
C18_Witness ==
  /\ delay.base = WORKER_RETRY_BASE_DELAY_SECONDS
  /\ delay.max = WORKER_RETRY_MAX_DELAY_SECONDS
  /\ delay.n = MaxAttempts
  /\ delay.out = WORKER_RETRY_MAX_DELAY_SECONDS
  /\ delay.prev = delay.out

\* C19: a step changes a task's attempt_count only by adding 1, and only as
\* the failure path's commit on a Running row (handler exception, missing
\* handler or lease timeout, leaving the row RetryScheduled or Failed with
\* that error); every other step leaves attempt_count as it is.
C19_AttemptCountFrame ==
  [][\A t \in DOMAIN store :
       store'[t].attempt_count # store[t].attempt_count
         => /\ store'[t].attempt_count = store[t].attempt_count + 1
            /\ store[t].status = "running"
            /\ store'[t].status \in {"retry_scheduled", "failed"}
            /\ store'[t].error \in {"handler_error", "no_handler", "lease_timeout"}]_vars

\* C19 witness: one task has been dequeued, marked Running and finished with
\* Success at attempt_count 0, and another has had its failed attempt counted.
C19_Witness ==
  \E t, u \in DOMAIN store :
    /\ store[t].status = "success" /\ store[t].attempt_count = 0
    /\ handler_calls[t] = 1
    /\ store[u].attempt_count = 1 /\ store[u].error = "handler_error"

\* C20: no step of the system, the deletion of a task's owner included,
\* removes a row from the Task Store: the set of task ids only grows.
C20_RowsNeverDeleted ==
  [][DOMAIN store \subseteq DOMAIN store']_vars

\* ---------------------------------------------------------------- C21..C30
UserJobIds(jobs) == {id \in JobIds(jobs) : is_managed_cron_job_id(id)}

ActiveIds(table) == {id \in DOMAIN table : table[id].is_active}

\* exactly one job is stored under id, built from the values of row
RegisteredFrom(jobs, id, row) ==
  /\ Len(get_job(jobs, id)) = 1
  /\ LET job == get_job(jobs, id)[1]
     IN  /\ job.trigger = build_trigger(row.cron_expression)
         /\ job.kwargs = [user_id |-> row.user_id, action_type |-> row.action_type,
                          payload |-> row.payload]

BootstrapCompletes == sync.pc = "rows" /\ sync.force /\ sync'.pc = "idle"

\* C21: when bootstrap_from_db completes with failed = 0, the ids of the
\* registered user jobs are exactly the ids of the active rows of the table,
\* and the job of each active row carries the trigger and the arguments built
\* from that row's cron_expression, owner, action_type and payload.
C21_BootstrapRegistersActiveRows ==
  [][(BootstrapCompletes /\ sync'.last.failed = 0) =>
       (/\ UserJobIds(scheduler'.jobs) = ActiveIds(cron_jobs')
        /\ \A id \in ActiveIds(cron_jobs') :
             RegisteredFrom(scheduler'.jobs, id, cron_jobs'[id]))]_vars

\* a bootstrap has just completed without failure over a table that holds an
\* active row, now registered, and an inactive row
C21_Witness ==
  /\ sync.last.kind = "bootstrap" /\ sync.last.failed = 0 /\ sync.last.loaded >= 1
  /\ sync.passes = 0 /\ request.used = DOMAIN cron_jobs /\ clock = 0
  /\ ActiveIds(cron_jobs) # {} /\ ActiveIds(cron_jobs) # DOMAIN cron_jobs
  /\ UserJobIds(scheduler.jobs) = ActiveIds(cron_jobs)

SyncCompletes == sync.pc = "rows" /\ ~sync.force /\ sync'.pc = "idle"

Accepted(row) == build_trigger(row.cron_expression).type # "error"

C23_InactiveRowHasNoTrigger ==
  \A id \in DOMAIN cron_jobs :
    ~cron_jobs[id].is_active => id \notin JobIds(scheduler.jobs)

\* execute_action invocations made for the job id
Fired(id) == Cardinality({i \in 1..Len(executions) : executions[i].id = id})

\* C24: while the row of a one-shot (@once:) job definition is active,
\* execute_action has run for it at most once, whatever sync or bootstrap
\* passes have run since its trigger fired and left the job store.
C24_OneShotFiresOnce ==
  \A id \in ActiveIds(cron_jobs) :
    startswith(cron_jobs[id].cron_expression, "@once:") => Fired(id) <= 1

\* ids of the rows whose deletion delete_cron_job has completed
Deleted == request.used \ DOMAIN cron_jobs

\* C25: once a job that was registered has been removed by delete_cron_job
\* (trigger removed, row deleted), no job is registered under its id and
\* execute_action does not run for it any more.
C25_RemovedJobNeverFires ==
  [][\A id \in Deleted' :
       /\ id \notin JobIds(scheduler'.jobs)
       /\ (id \in Deleted => Fired(id)' = Fired(id))]_vars

PassCompletes == sync.pc = "rows" /\ sync'.pc = "idle"

SystemJobIds(jobs) == {id \in JobIds(jobs) : startswith(id, "global_")}

\* C26: a bootstrap or periodic sync pass leaves every job whose id starts
\* with global_ in the job store, unchanged.
C26_SystemJobsUntouched ==
  [][PassCompletes =>
       \A id \in SystemJobIds(scheduler.jobs) :
         get_job(scheduler'.jobs, id) = get_job(scheduler.jobs, id)]_vars

\* a pass has removed a stale user job and both system jobs are registered
C26_Witness ==
  /\ sync.pc = "idle" /\ sync.last.kind \in {"bootstrap", "sync"}
  /\ sync.last.removed >= 1
  /\ {global_proactive_ping, global_cron_sync} \subseteq JobIds(scheduler.jobs)

\* this step is a call of add_or_replace_job
AddOrReplaceCalled ==
  invoked'.count = invoked.count + 1 /\ invoked'.op = "add_or_replace_job"

\* C27: a call of add_or_replace_job that returns leaves exactly one job
\* under job_id, with the trigger and the arguments of that call; and a call
\* that repeats the arguments of the call before it leaves the job store as
\* that call left it.
C27_AddOrReplaceIdempotent ==
  [][(AddOrReplaceCalled /\ ~invoked'.raised) =>
       (/\ RegisteredFrom(scheduler'.jobs, invoked'.args.job_id, invoked'.args)
        /\ (invoked'.repeats => scheduler'.jobs = scheduler.jobs))]_vars

\* the same call has just been made twice in a row, and one user job is stored
C27_Witness ==
  /\ invoked.op = "add_or_replace_job" /\ ~invoked.raised /\ invoked.repeats
  /\ invoked.count = MaxCalls /\ invoked.args.payload = "y"
  /\ RegisteredFrom(scheduler.jobs, invoked.args.job_id, invoked.args)
  /\ Len(scheduler.jobs) = 3

\* expressions that are no cron string and no @once: with an ISO timestamp
Malformed == {<<"@once:", "soon">>, <<"every", "day">>}

\* C28: a call of add_or_replace_job with a malformed cron_expression raises,
\* emits the alert "scheduler add job failed" for the job id and leaves the
\* job store as it was, the job already stored under that id included.
C28_MalformedExpressionRaises ==
  [][(AddOrReplaceCalled /\ invoked'.args.cron_expression \in Malformed) =>
       (/\ invoked'.raised
        /\ scheduler_alerts' =
             Append(scheduler_alerts,
                    Alert("scheduler add job failed", invoked'.args.job_id))
        /\ scheduler'.jobs = scheduler.jobs)]_vars

\* a call with a malformed expression has raised for a job id under which a
\* job is stored
C28_Witness ==
  /\ invoked.op = "add_or_replace_job" /\ invoked.raised
  /\ invoked.args.cron_expression \in Malformed
  /\ invoked.args.job_id \in JobIds(scheduler.jobs)
  /\ scheduler_alerts # <<>>

\* action types that are send_message, reminder, notification or
\* daily_briefing once trimmed and lower-cased
MessageStyle ==
  {<<"send_message">>, <<" ", "Reminder", " ">>, <<"notification">>,
   <<"daily_briefing">>, <<"SEND_MESSAGE">>}

ExecuteActionCalled ==
  invoked'.count = invoked.count + 1 /\ invoked'.op = "execute_action"

\* envelopes held for an owner, in the broker list and in the fallback
Held(queues, u) == Len(queues[u].redis) + Len(queues[u].local)

Envelopes(list) == {list[i] : i \in 1..Len(list)}

\* every envelope that left the list is older than every envelope it holds
OldestDropped(before, after) ==
  \A e \in Envelopes(before) \ Envelopes(after) :
    \A k \in Envelopes(after) : e.n < k.n

\* C30: after any sequence of push calls an owner's result queue holds at
\* most max(10, WORKER_RESULT_QUEUE_MAX_ITEMS) envelopes, in the broker list
\* and in the in-memory fallback alike, and a push drops only envelopes older
\* than those it keeps.
C30_ResultQueueBounded ==
  [][\A u \in Owners :
       /\ Len(result_queue'[u].redis) <= max_items(settings.WORKER_RESULT_QUEUE_MAX_ITEMS)
       /\ Len(result_queue'[u].local) <= max_items(settings.WORKER_RESULT_QUEUE_MAX_ITEMS)
       /\ OldestDropped(result_queue[u].redis, result_queue'[u].redis)
       /\ OldestDropped(result_queue[u].local, result_queue'[u].local)]_vars

\* ============================================================== C31..C40
\* the dispatcher d performs the pipeline of _promote_retries in this step
PromotePipeStep(d) ==
  /\ ops[d] # <<>> /\ Head(ops[d]).op = "promote_pipe"
  /\ ops'[d] = Tail(ops[d])

Members(zset) == {zset[i].id : i \in 1..Len(zset)}

\* C31: after the promote-due-retries step every Retry Set entry that was due
\* at the start of the step is out of the Retry Set, its id is on the Ready
\* List and its row is Queued with next_retry_at cleared; every entry with a
\* later due time is still in the Retry Set and its task still RetryScheduled.
C31_PromoteDueRetries ==
  [][\A d \in DOMAIN pc :
       PromotePipeStep(d) =>
         \A i \in 1..Len(retry) :
           IF retry[i].due <= 0
           THEN /\ retry[i].id \notin Members(retry')
                /\ retry[i].id \in SeqToSet(ready')
                /\ retry[i].id \in DOMAIN store' =>
                     /\ store'[retry[i].id].status = "queued"
                     /\ store'[retry[i].id].next_retry_at = "None"
           ELSE /\ retry[i] \in SeqToSet(retry')
                /\ retry[i].id \in DOMAIN store' =>
                     store'[retry[i].id].status = "retry_scheduled"]_vars

\* C31 as amended: the step promotes the first zrangebyscore_num entries, in
\* score order, that were due at its start (out of the Retry Set, on the
\* Ready List, row Queued with next_retry_at cleared); every other entry,
\* due later or due beyond that batch, is still in the Retry Set and its
\* task still RetryScheduled.
C31_PromoteDueBatch ==
  [][\A d \in DOMAIN pc :
       PromotePipeStep(d) =>
         \A i \in 1..Len(retry) :
           IF retry[i].due <= 0 /\ i <= zrangebyscore_num
           THEN /\ retry[i].id \notin Members(retry')
                /\ retry[i].id \in SeqToSet(ready')
                /\ retry[i].id \in DOMAIN store' =>
                     /\ store'[retry[i].id].status = "queued"
                     /\ store'[retry[i].id].next_retry_at = "None"
           ELSE /\ retry[i] \in SeqToSet(retry')
                /\ retry[i].id \in DOMAIN store' =>
                     store'[retry[i].id].status = "retry_scheduled"]_vars

\* C31 witness: the step has just promoted a task (Queued again after one
\* counted attempt, id on the Ready List) and left a later entry, whose task
\* is still RetryScheduled, in the Retry Set.
C31_Witness ==
  /\ pc[1] = "dequeue" /\ ops[1] = <<>>
  /\ \E t \in DOMAIN store :
       /\ store[t].status = "queued" /\ store[t].attempt_count = 1
       /\ store[t].next_retry_at = "None"
       /\ t \in SeqToSet(ready) /\ t \notin RetryIds
  /\ \E u \in DOMAIN store :
       store[u].status = "retry_scheduled" /\ u \in RetryIds

\* C32: when the recovery pass finds in the Processing List an id whose row
\* is Queued, the pass leaves the id on the Ready List and out of the
\* Processing List, and leaves the row (status, attempt_count) as it was.
C32_RecoverQueuedItem ==
  BetweenIterations =>
    \A t \in SeqToSet(processing) :
      (HasRow(t) /\ store[t].status = "queued")
        => /\ t \in SeqToSet(AfterRecoveryPass(State).ready)
           /\ t \notin SeqToSet(AfterRecoveryPass(State).processing)
           /\ AfterRecoveryPass(State).store[t] = store[t]

\* C33: when processing of a dequeued id has ended (by success, by a
\* scheduled retry, by permanent failure, because the row is missing, or by
\* an exception) the id is no longer in the Processing List: a single
\* dispatcher that is between iterations has left no id there.
C33_ProcessingListCleared ==
  BetweenIterations => processing = <<>>

\* C33 witness: between iterations, one task has ended in Success, the
\* processing of another has ended in Failed or by the exception of the
\* retry branch (its row still Running), and the loop has gone on.
C33_Witness ==
  /\ BetweenIterations
  /\ \E t, u \in DOMAIN store :
       /\ store[t].status = "success"
       /\ handler_fails[u] > 0 /\ store[u].status \in {"running", "failed"}
  /\ ready = <<>>

\* a task whose id has been pushed by enqueue only: no attempt of it has been
\* counted, so no retry and no lease recovery has put its id back
Fresh(t) == HasRow(t) /\ store[t].attempt_count = 0 /\ t \notin RetryIds

\* C34: if enqueue pushed task A's id on the Ready List before task B's (ids
\* are given out in the order of the pushes) and neither task has been
\* retried or crash-recovered, the single dispatcher dequeues and starts A
\* before B: when B is handed out, A is no longer waiting on the Ready List.
C34_FifoForFreshWork ==
  [][\A d \in DOMAIN pc : \A a, b \in DOMAIN store :
       (HandedTo(d, b) /\ a < b /\ Fresh(a) /\ Fresh(b))
         => a \notin SeqToSet(ready)]_vars

\* C34 witness: two tasks pushed one after the other have both been started
\* (their handlers called) without any counted attempt.
C34_Witness ==
  \E a, b \in DOMAIN store :
    /\ a < b /\ Fresh(a) /\ Fresh(b)
    /\ handler_calls[a] > 0 /\ handler_calls[b] > 0

\* C35: every status that enqueue, the failure path and the recovery pass
\* read or write is declared by WorkerJobStatus, so no enqueue call ends in
\* the AttributeError of an undeclared member (its dedup lookup) and no
\* dispatcher step raises it (the retry branch of the failure path, the
\* classification of the recovery pass).
C35_StatusesDeclared ==
  /\ \A c \in DOMAIN enq : enq[c].result # "AttributeError"
  /\ \A d \in DOMAIN pc : ~AboutToRaise(d)

\* an instance has dequeued t into the Processing List and has not yet
\* committed the row as Running
DequeuedNotRunning(t) ==
  /\ HasRow(t) /\ store[t].status = "queued"
  /\ \E d \in DOMAIN pc : cur[d] = t

Occurrences(t) ==
  Count(ready, t) + Count(processing, t)
    + Cardinality({i \in 1..Len(retry) : retry[i].id = t})

EnqueueInProgress(t) == \E c \in DOMAIN enq : enq[c].pc = "push" /\ enq[c].task = t

\* C38: with a single dispatcher and no crash, whenever the dispatcher is
\* between iterations a task is RetryScheduled if and only if its id is in
\* the Retry Set, every Queued task of a completed enqueue has its id in the
\* Ready List, and no Success or Failed task has its id in the Ready List,
\* the Processing List or the Retry Set.
C38_StoreAgreesWithTransport ==
  BetweenIterations =>
    \A t \in DOMAIN store :
      /\ store[t].status = "retry_scheduled" <=> t \in RetryIds
      /\ (store[t].status = "queued" /\ ~EnqueueInProgress(t))
           => t \in SeqToSet(ready)
      /\ store[t].status \in Terminal
           => t \notin SeqToSet(ready) \cup SeqToSet(processing) \cup RetryIds

\* C38 witness: between two iterations one task is terminal, and another,
\* promoted from the Retry Set, is Queued and waits on the Ready List.
C38_Witness ==
  /\ BetweenIterations
  /\ \E t, u \in DOMAIN store :
       /\ store[t].status \in Terminal
       /\ store[u].status = "queued" /\ store[u].attempt_count = 1
       /\ u \in SeqToSet(ready)

\* the n-th envelope pushed for the owner
Envelope(n) == [user_id |-> "u1", n |-> n]

\* the envelope is in the owner's queue or in the answer a pop_many call has
\* read and is about to return
Pending(e) ==
  \/ e \in SeqToSet(result_queue["u1"].redis)
  \/ e \in SeqToSet(result_queue["u1"].local)
  \/ \E c \in DOMAIN pop_calls : e \in SeqToSet(pop_calls[c].raw_items)

\* no broker call has failed and no more envelopes were pushed than the queue
\* may hold, so nothing was evicted or diverted to the in-memory deque
NoEvictionNoFailure ==
  /\ broker.outages = 0 /\ broker.timeouts = 0
  /\ invoked.count <= max_items(settings.WORKER_RESULT_QUEUE_MAX_ITEMS)

\* C39: every envelope pushed to an owner's result queue (and not evicted) is
\* returned by exactly one pop_many call: whatever pushes and pop_many calls
\* interleave, no envelope is returned twice and none is lost (an envelope
\* not yet returned is still in the queue or in an answer about to be
\* returned).
C39_PopManyExactlyOnce ==
  NoEvictionNoFailure =>
    \A n \in 1..invoked.count :
      /\ Count(popped, Envelope(n)) <= 1
      /\ Count(popped, Envelope(n)) = 0 => Pending(Envelope(n))

\* C40: once the deletion of a cron job has completed (trigger removed, then
\* row deleted) no trigger is registered under its id, also when a
\* reconciliation pass that read the active rows before the deletion goes on
\* after it.
C40_DeletedJobHasNoTrigger ==
  \A id \in Deleted : get_job(scheduler.jobs, id) = <<>>

====
